---- MODULE Spec2Model ----
(***************************************************************************)
(* Verification model of the scoring core of site-analyser's ai-service:   *)
(* the rule-based and model-based risk scorer, the three feature           *)
(* extractors, the anomaly detector, the threat classifier with its        *)
(* fallback detection, the life cycle of the persisted model files         *)
(* (train_model, _save_model and load_model of the three families), and    *)
(* requests that run concurrently on one model directory, each file test,  *)
(* fit, write and load being a step of its own.                            *)
(*                                                                         *)
(* Conventions.                                                            *)
(*  - A Python dict is a function whose domain is the set of keys that are *)
(*    present, so dict.get(k, default) is _get(d, k, default).             *)
(*  - The groups "headers" and "ssl" are passed in two shapes in the       *)
(*    repository (a dict of flags/values for the risk and threat code, a   *)
(*    list of finding items in api/analyze.py); their values carry the     *)
(*    Python type as a tag: PyDict(d) or PyList(l).                        *)
(*  - Python floats are modelled as exact rationals [n, d] in lowest       *)
(*    terms and round(x, 1) is round-half-even on the exact value.  At a   *)
(*    decimal tie the rounding error of the float sum decides instead, so  *)
(*    the generated server groups keep the weighted sums off the ties;     *)
(*    the one tie among the scans, 67.85 of high_risk_scan_data, rounds    *)
(*    to 67.8 in Python as well.                                           *)
(*  - A persisted artifact is a record: [kind |-> "absent"], a corrupt     *)
(*    blob, or the pickled estimator with the attributes the code uses.    *)
(***************************************************************************)
EXTENDS Integers, Sequences, FiniteSets, TLC

VARIABLES scan, disk, risk, prev, feat, anomaly, threat, loaded, ops, procs

vars == <<scan, disk, risk, prev, feat, anomaly, threat, loaded, ops, procs>>

(***************************************************************************)
(* Bounds of the model                                                     *)
(***************************************************************************)
\* longest generated list of findings
MaxFindings == 3

\* most operations in one run of the model directory's life cycle
MaxOps == 2

\* requests that run at the same time
MaxRequests == 2

\* most SSL vulnerabilities of a generated scan (the penalty is capped at 5)
MaxVulns == 6

(***************************************************************************)
(* Exact rational arithmetic standing for Python float arithmetic          *)
(***************************************************************************)
Abs(i) == IF i < 0 THEN -i ELSE i

RECURSIVE GCD(_, _)
GCD(a, b) == IF b = 0 THEN a ELSE GCD(b, a % b)

Rat(n, d) ==
  LET g == GCD(Abs(n), Abs(d))
      s == IF d < 0 THEN -1 ELSE 1
  IN  [n |-> (s * n) \div g, d |-> (s * d) \div g]

RInt(i) == [n |-> i, d |-> 1]

RAdd(a, b) == Rat(a.n * b.d + b.n * a.d, a.d * b.d)

RSub(a, b) == Rat(a.n * b.d - b.n * a.d, a.d * b.d)

RMul(a, b) == Rat(a.n * b.n, a.d * b.d)

RLt(a, b) == a.n * b.d < b.n * a.d

RLe(a, b) == a.n * b.d <= b.n * a.d

\* Python min(a, b): b when b < a, else a
RMin(a, b) == IF RLt(b, a) THEN b ELSE a

\* Python max(a, b): b when b > a, else a
RMax(a, b) == IF RLt(a, b) THEN b ELSE a

\* Python round(x, 1): nearest tenth, ties to the even tenth
Round1(x) ==
  LET q == (x.n * 10) \div x.d
      r == (x.n * 10) % x.d
      t == IF 2 * r < x.d THEN q
           ELSE IF 2 * r > x.d THEN q + 1
           ELSE IF q % 2 = 0 THEN q ELSE q + 1
  IN  Rat(t, 10)

RECURSIVE RSum(_)
RSum(s) == IF Len(s) = 0 THEN RInt(0) ELSE RAdd(Head(s), RSum(Tail(s)))

\* Python truth value of a flag: 1.0 if flag else 0.0
Flag(b) == IF b THEN RInt(1) ELSE RInt(0)

(***************************************************************************)
(* Python values                                                           *)
(***************************************************************************)
EmptyDict == [k \in {} |-> 0]

_get(d, k, default) == IF k \in DOMAIN d THEN d[k] ELSE default

PyDict(d) == [t |-> "dict", v |-> d]

PyList(l) == [t |-> "list", v |-> l]

(***************************************************************************)
(* risk_scoring/scoring_model.py: constants                                *)
(***************************************************************************)
RiskCategoryNames ==
  <<"vulnerability", "compliance", "exposure", "configuration", "content", "reputation">>

RISK_CATEGORIES ==
  ("vulnerability" :> Rat(30, 100)) @@ ("compliance" :> Rat(20, 100)) @@
  ("exposure" :> Rat(15, 100)) @@ ("configuration" :> Rat(15, 100)) @@
  ("content" :> Rat(10, 100)) @@ ("reputation" :> Rat(10, 100))

RISK_LEVELS ==
  << [lower |-> 0,  upper |-> 20,  level |-> "Low",      color |-> "#4CAF50"],
     [lower |-> 20, upper |-> 40,  level |-> "Moderate", color |-> "#FFC107"],
     [lower |-> 40, upper |-> 60,  level |-> "Medium",   color |-> "#FF9800"],
     [lower |-> 60, upper |-> 80,  level |-> "High",     color |-> "#F44336"],
     [lower |-> 80, upper |-> 101, level |-> "Critical", color |-> "#9C27B0"] >>

severity_weights ==
  ("Critical" :> 100) @@ ("High" :> 80) @@ ("Medium" :> 50) @@ ("Low" :> 20) @@ ("Info" :> 0)

required_headers ==
  <<"content_security_policy", "x_frame_options", "strict_transport_security",
    "x_content_type_options", "x_xss_protection", "referrer_policy">>

(***************************************************************************)
(* risk_scoring/scoring_model.py: the six category scores                  *)
(***************************************************************************)
\* variant: the severity weights are not applied
_calculate_vulnerability_score_unweighted(scan_data) ==
  LET findings == _get(scan_data, "findings", <<>>)
  IN  IF Len(findings) = 0 THEN RInt(0) ELSE RMin(RInt(100), RInt(0))

\* variant: a finding without a severity weighs nothing
_calculate_vulnerability_score_strict(scan_data) ==
  LET findings == _get(scan_data, "findings", <<>>)
      weight(f) == _get(severity_weights, _get(f, "severity", "None"), 0)
      weighted_sum == RSum([i \in 1..Len(findings) |-> RInt(weight(findings[i]))])
      total_weight == Len(findings)
  IN  IF Len(findings) = 0 THEN RInt(0)
      ELSE RMin(RInt(100), RMul(weighted_sum, Rat(1, total_weight)))

_calculate_vulnerability_score(scan_data) ==
  LET findings == _get(scan_data, "findings", <<>>)
      weight(f) == _get(severity_weights, _get(f, "severity", "Low"), 0)
      weighted_sum == RSum([i \in 1..Len(findings) |-> RInt(weight(findings[i]))])
      total_weight == Len(findings)
  IN  IF Len(findings) = 0 THEN RInt(0)
      ELSE RMin(RInt(100), RMul(weighted_sum, Rat(1, total_weight)))

\* variant: the SSL penalty is capped at 50 in total
_calculate_compliance_score_capped(scan_data) ==
  LET headers == _get(scan_data, "headers", PyDict(EmptyDict)).v
      n == Len(required_headers)
      missing_headers == Cardinality({i \in 1..n : ~ _get(headers, required_headers[i], FALSE)})
      header_score == Rat((n - missing_headers) * 100, n)
      ssl == _get(scan_data, "ssl", PyDict(EmptyDict)).v
      vulns == _get(ssl, "vulnerabilities", <<>>)
      penalty == (IF ~ _get(ssl, "is_valid", FALSE) THEN 50 ELSE 0) + Len(vulns) * 10
      ssl_score == 100 - (IF penalty < 50 THEN penalty ELSE 50)
  IN  RSub(RInt(100),
           RAdd(RMul(RSub(RInt(100), header_score), Rat(3, 10)),
                RMul(RInt(100 - ssl_score), Rat(5, 10))))

_calculate_compliance_score(scan_data) ==
  LET headers == _get(scan_data, "headers", PyDict(EmptyDict)).v
      n == Len(required_headers)
      missing_headers == Cardinality({i \in 1..n : ~ _get(headers, required_headers[i], FALSE)})
      header_score == Rat((n - missing_headers) * 100, n)
      ssl == _get(scan_data, "ssl", PyDict(EmptyDict)).v
      vulns == _get(ssl, "vulnerabilities", <<>>)
      s1 == IF ~ _get(ssl, "is_valid", FALSE) THEN 100 - 50 ELSE 100
      ssl_score == IF Len(vulns) > 0
                   THEN s1 - (IF Len(vulns) * 10 < 50 THEN Len(vulns) * 10 ELSE 50)
                   ELSE s1
      other_factors == 100
  IN  RSub(RInt(100),
           RAdd(RAdd(RMul(RSub(RInt(100), header_score), Rat(3, 10)),
                     RMul(RInt(100 - ssl_score), Rat(5, 10))),
                RMul(RInt(100 - other_factors), Rat(2, 10))))

_calculate_exposure_score(scan_data) ==
  LET server_info == _get(scan_data, "server_info", EmptyDict)
      open_ports == _get(server_info, "open_port_count", 0)
      port_score == IF open_ports * 10 < 100 THEN open_ports * 10 ELSE 100
      disclosure_score == IF _get(server_info, "version_disclosed", FALSE) THEN 30 ELSE 0
      exposed_services == Len(_get(server_info, "exposed_services", <<>>))
      services_score == IF exposed_services * 20 < 100 THEN exposed_services * 20 ELSE 100
  IN  RAdd(RAdd(RMul(RInt(port_score), Rat(4, 10)),
                RMul(RInt(disclosure_score), Rat(3, 10))),
           RMul(RInt(services_score), Rat(3, 10)))

_calculate_configuration_score(scan_data) ==
  LET server_info == _get(scan_data, "server_info", EmptyDict)
      ssl == _get(scan_data, "ssl", PyDict(EmptyDict)).v
      misconfigurations == _get(scan_data, "misconfigurations", <<>>)
      a == IF _get(server_info, "is_outdated", FALSE) THEN 40 ELSE 0
      b == IF ~ _get(ssl, "has_pfs", FALSE) THEN 30 ELSE 0
      c == IF _get(ssl, "is_valid", FALSE) /\ _get(ssl, "days_to_expiry", 0) < 30
           THEN 20 ELSE 0
      m == IF Len(misconfigurations) * 10 < 30 THEN Len(misconfigurations) * 10 ELSE 30
      score == a + b + c + m
  IN  RInt(IF score < 100 THEN score ELSE 100)

_calculate_content_score(scan_data) ==
  LET content == _get(scan_data, "content_analysis", EmptyDict)
      external_scripts == _get(content, "external_script_count", 0)
      a == IF external_scripts * 8 < 40 THEN external_scripts * 8 ELSE 40
      b == IF _get(content, "has_login_form", FALSE) THEN 30 ELSE 0
      iframe_count == _get(content, "iframe_count", 0)
      c == IF iframe_count * 10 < 20 THEN iframe_count * 10 ELSE 20
      score == a + b + c
  IN  RInt(IF score < 100 THEN score ELSE 100)

_calculate_reputation_score(scan_data) ==
  LET reputation == _get(scan_data, "domain_reputation", EmptyDict)
      base == _get(reputation, "risk_score", RInt(0))
      a == IF _get(reputation, "is_blacklisted", FALSE) THEN 50 ELSE 0
      b == IF _get(reputation, "has_malware_history", FALSE) THEN 30 ELSE 0
      c == IF _get(reputation, "has_phishing_history", FALSE) THEN 30 ELSE 0
      score == RAdd(base, RInt(a + b + c))
  IN  RMin(RInt(100), score)

(***************************************************************************)
(* risk_scoring/scoring_model.py: level lookup and the rule-based scorer   *)
(***************************************************************************)
_get_risk_level(score) ==
  LET hits == {i \in 1..Len(RISK_LEVELS) :
                 RLe(RInt(RISK_LEVELS[i].lower), score) /\ RLt(score, RInt(RISK_LEVELS[i].upper))}
  IN  IF hits # {} THEN RISK_LEVELS[CHOOSE i \in hits : \A j \in hits : i <= j]
      ELSE RISK_LEVELS[5]

_get_category_description(category) ==
  CASE category = "vulnerability" -> "Security vulnerabilities and weaknesses"
    [] category = "compliance"    -> "Adherence to security standards and best practices"
    [] category = "exposure"      -> "Internet exposure and attack surface area"
    [] category = "configuration" -> "Server and application configuration security"
    [] category = "content"       -> "Website content security issues"
    [] category = "reputation"    -> "Domain reputation and history"
    [] OTHER -> ""

\* the category scores of one scan, by category name
RuleCategoryScore(scan_data, category) ==
  CASE category = "vulnerability" -> _calculate_vulnerability_score(scan_data)
    [] category = "compliance"    -> _calculate_compliance_score(scan_data)
    [] category = "exposure"      -> _calculate_exposure_score(scan_data)
    [] category = "configuration" -> _calculate_configuration_score(scan_data)
    [] category = "content"       -> _calculate_content_score(scan_data)
    [] category = "reputation"    -> _calculate_reputation_score(scan_data)

\* variant: the plain mean of the six scores
WeightedSum_mean(category_scores) ==
  RMul(RSum([i \in 1..Len(RiskCategoryNames) |-> category_scores[RiskCategoryNames[i]].score]),
       Rat(1, 6))

WeightedSum(category_scores) ==
  RSum([i \in 1..Len(RiskCategoryNames) |->
          RMul(category_scores[RiskCategoryNames[i]].score,
               category_scores[RiskCategoryNames[i]].weight)])

\* the scorers look the level up with the unrounded score and return the
\* score rounded to one decimal
_rule_based_scoring(scan_data) ==
  LET descriptions ==
        ("vulnerability" :> "Security vulnerabilities and weaknesses") @@
        ("compliance" :> "Adherence to security standards and best practices") @@
        ("exposure" :> "Internet exposure and attack surface area") @@
        ("configuration" :> "Server and application configuration security") @@
        ("content" :> "Website content security issues") @@
        ("reputation" :> "Domain reputation and history")
      category_scores ==
        [c \in DOMAIN RISK_CATEGORIES |->
           [score |-> RuleCategoryScore(scan_data, c),
            weight |-> RISK_CATEGORIES[c],
            description |-> descriptions[c]]]
      overall_score == WeightedSum(category_scores)
      risk_level == _get_risk_level(overall_score)
  IN  [overall_score |-> Round1(overall_score),
       risk_level |-> risk_level.level,
       risk_color |-> risk_level.color,
       category_scores |-> category_scores,
       scoring_method |-> "rule_based"]

(***************************************************************************)
(* risk_scoring/scoring_model.py: the 31 risk features                     *)
(***************************************************************************)
SeverityNames == <<"Critical", "High", "Medium", "Low", "Info">>

\* severity_counts after counting the items of a list of findings; an item
\* whose severity is absent or not one of the five names is not counted
SeverityCount(items, name) ==
  Cardinality({i \in 1..Len(items) : _get(items[i], "severity", "None") = name})

extract_risk_features(scan_data) ==
  LET findings == _get(scan_data, "findings", <<>>)
      ssl == _get(scan_data, "ssl", PyDict(EmptyDict)).v
      headers == _get(scan_data, "headers", PyDict(EmptyDict)).v
      content == _get(scan_data, "content_analysis", EmptyDict)
      server == _get(scan_data, "server_info", EmptyDict)
      reputation == _get(scan_data, "domain_reputation", EmptyDict)
      severity_features == [i \in 1..5 |-> RInt(SeverityCount(findings, SeverityNames[i]))]
      ssl_features ==
        << Flag(_get(ssl, "is_valid", FALSE)),
           RMin(Rat(_get(ssl, "days_to_expiry", 0), 365), RInt(1)),
           Rat(_get(ssl, "cipher_strength", 0), 256),
           Flag(_get(ssl, "has_pfs", FALSE)),
           IF Len(_get(ssl, "vulnerabilities", <<>>)) > 0 THEN RInt(0) ELSE RInt(1) >>
      header_features ==
        << Flag(_get(headers, "content_security_policy", FALSE)),
           Flag(_get(headers, "x_frame_options", FALSE)),
           Flag(_get(headers, "strict_transport_security", FALSE)),
           Flag(_get(headers, "x_content_type_options", FALSE)),
           Flag(_get(headers, "x_xss_protection", FALSE)),
           Flag(_get(headers, "referrer_policy", FALSE)),
           Flag(_get(headers, "permissions_policy", FALSE)) >>
      content_features ==
        << RMin(Rat(_get(content, "external_script_count", 0), 10), RInt(1)),
           RMin(Rat(_get(content, "inline_script_count", 0), 10), RInt(1)),
           RMin(Rat(_get(content, "form_count", 0), 5), RInt(1)),
           RMin(Rat(_get(content, "input_field_count", 0), 10), RInt(1)),
           Flag(_get(content, "has_login_form", FALSE)),
           RMin(Rat(_get(content, "cookie_count", 0), 5), RInt(1)) >>
      server_features ==
        << Flag(_get(server, "version_disclosed", FALSE)),
           Flag(_get(server, "is_outdated", FALSE)),
           Rat(_get(server, "open_port_count", 0), 10),
           RMin(Rat(_get(server, "vulnerability_count", 0), 5), RInt(1)) >>
      reputation_features ==
        << Flag(_get(reputation, "is_blacklisted", FALSE)),
           Flag(_get(reputation, "has_malware_history", FALSE)),
           Flag(_get(reputation, "has_phishing_history", FALSE)),
           RMin(RMul(_get(reputation, "risk_score", RInt(0)), Rat(1, 100)), RInt(1)) >>
  IN  severity_features \o ssl_features \o header_features \o content_features
        \o server_features \o reputation_features

\* headers.get / ssl.get on a list raises AttributeError
DictShaped(scan_data) ==
  /\ _get(scan_data, "headers", PyDict(EmptyDict)).t = "dict"
  /\ _get(scan_data, "ssl", PyDict(EmptyDict)).t = "dict"

(***************************************************************************)
(* threat_detection/classifier.py: the threat features                     *)
(***************************************************************************)
extract_threat_features(scan_data) ==
  LET findings == _get(scan_data, "findings", <<>>)
      content == _get(scan_data, "content_analysis", EmptyDict)
      headers == _get(scan_data, "headers", PyDict(EmptyDict)).v
      ssl == _get(scan_data, "ssl", PyDict(EmptyDict)).v
      url_info == _get(scan_data, "url_info", EmptyDict)
      severity_features == [i \in 1..5 |-> RInt(SeverityCount(findings, SeverityNames[i]))]
      content_features ==
        << RInt(_get(content, "suspicious_script_count", 0)),
           RInt(_get(content, "external_link_count", 0)),
           RInt(_get(content, "form_count", 0)),
           RInt(_get(content, "iframe_count", 0)),
           RInt(_get(content, "redirect_count", 0)),
           RInt(_get(content, "cookie_count", 0)) >>
      header_features ==
        << Flag(_get(headers, "content_security_policy", FALSE)),
           Flag(_get(headers, "x_frame_options", FALSE)),
           Flag(_get(headers, "strict_transport_security", FALSE)),
           Flag(_get(headers, "x_content_type_options", FALSE)),
           Flag(_get(headers, "x_xss_protection", FALSE)) >>
      ssl_features ==
        << Flag(_get(ssl, "is_valid", FALSE)),
           Rat(_get(ssl, "days_to_expiry", 0), 365),
           Rat(_get(ssl, "cipher_strength", 0), 256),
           Flag(_get(ssl, "has_pfs", FALSE)),
           IF Len(_get(ssl, "vulnerabilities", <<>>)) > 0 THEN RInt(0) ELSE RInt(1) >>
      url_features ==
        << RInt(_get(url_info, "subdomain_count", 0)),
           RInt(_get(url_info, "path_depth", 0)),
           RInt(_get(url_info, "query_param_count", 0)),
           Flag(_get(url_info, "uses_https", FALSE)) >>
  IN  severity_features \o content_features \o header_features \o ssl_features
        \o url_features

(***************************************************************************)
(* anomaly_detection/isolation_forest.py: the anomaly features             *)
(***************************************************************************)
\* "for header in scan_data.get('headers', [])": iterating a list yields its
\* items, iterating a dict yields its keys, and a key (a str) has no .get
IterItems(value) == IF value.t = "list" THEN value.v ELSE <<>>

IterRaises(value) == value.t = "dict" /\ DOMAIN value.v # {}

anomaly_extract_raises(scan_data) ==
  \/ IterRaises(_get(scan_data, "headers", PyList(<<>>)))
  \/ IterRaises(_get(scan_data, "ssl", PyList(<<>>)))

extract_anomaly_features(scan_data) ==
  LET summary == _get(scan_data, "summary", EmptyDict)
      counted == _get(scan_data, "findings", <<>>)
                   \o IterItems(_get(scan_data, "headers", PyList(<<>>)))
                   \o IterItems(_get(scan_data, "ssl", PyList(<<>>)))
      severity_counts == [i \in 1..5 |-> SeverityCount(counted, SeverityNames[i])]
      total_findings == severity_counts[1] + severity_counts[2] + severity_counts[3]
                          + severity_counts[4] + severity_counts[5]
      ratios == IF total_findings > 0
                THEN << Rat(severity_counts[1], total_findings),
                        Rat(severity_counts[1] + severity_counts[2], total_findings) >>
                ELSE << RInt(0), RInt(0) >>
  IN  << RInt(_get(summary, "overall", 0)),
         RInt(_get(summary, "ssl", 0)),
         RInt(_get(summary, "headers", 0)),
         RInt(_get(summary, "vulnerabilities", 0)),
         RInt(_get(summary, "server", 0)) >>
        \o [i \in 1..5 |-> RInt(severity_counts[i])] \o ratios

(***************************************************************************)
(* Persisted artifacts and the estimators pickled in them                  *)
(***************************************************************************)
AbsentBlob == [kind |-> "absent"]

CorruptBlob == [kind |-> "corrupt"]

\* os.path.exists(path)
path_exists(blob) == blob.kind # "absent"

\* joblib.load(path) raises on a missing or undeserialisable file
joblib_load_raises(blob) == blob.kind \in {"absent", "corrupt"}

\* StandardScaler.transform(X): (x - mean_) / scale_, a ValueError when X
\* has another number of features than the scaler was fitted on
scaler_transform_raises(scaler, X) == scaler.n_features_in # Len(X)

scaler_transform(scaler, X) ==
  [i \in 1..Len(X) |-> RMul(RSub(X[i], scaler.mean), Rat(1, scaler.scale))]

\* GradientBoostingRegressor.predict(X)[0]: a function of the fitted model
\* and of the scaled features; here the regressor reads the first feature
model_predict_raises(model, X) == model.n_features_in # Len(X)

\* variant: a regressor whose answer depends on whether it was asked before
model_predict_drifting(model, X) ==
  IF risk.called THEN RAdd(RAdd(model.intercept, RMul(model.coef, X[1])), RInt(7))
  ELSE RAdd(model.intercept, RMul(model.coef, X[1]))

model_predict(model, X) == RAdd(model.intercept, RMul(model.coef, X[1]))

(***************************************************************************)
(* risk_scoring/scoring_model.py: the model path and the entry point       *)
(***************************************************************************)
_generate_category_scores(scan_data) ==
  [c \in DOMAIN RISK_CATEGORIES |->
     [score |-> RuleCategoryScore(scan_data, c),
      weight |-> RISK_CATEGORIES[c],
      description |-> _get_category_description(c)]]

\* the step of the try block of _ml_based_scoring (lines 73-85) that raises,
\* or "none"; the scans given to the risk scorer have the data-model shape,
\* on which _extract_features and the category scores do not raise
MlRaisingStep(scan_data, d) ==
  IF joblib_load_raises(d.risk_model) THEN "load_model"
  ELSE IF joblib_load_raises(d.risk_scaler) THEN "load_scaler"
  ELSE
    LET features == extract_risk_features(scan_data)
    IN  IF scaler_transform_raises(d.risk_scaler, features) THEN "transform"
        ELSE IF model_predict_raises(d.risk_model, scaler_transform(d.risk_scaler, features))
             THEN "predict"
        ELSE "none"

\* variant: the prediction is not clamped to [0, 100]
MlResponse_unclamped(scan_data, d) ==
  LET features == extract_risk_features(scan_data)
      X_scaled == scaler_transform(d.risk_scaler, features)
      overall_score == model_predict(d.risk_model, X_scaled)
      risk_level == _get_risk_level(overall_score)
  IN  [overall_score |-> Round1(overall_score),
       risk_level |-> risk_level.level,
       risk_color |-> risk_level.color,
       category_scores |-> _generate_category_scores(scan_data),
       scoring_method |-> "machine_learning"]

\* lines 78-102 of a call in which no step raises
MlResponse(scan_data, d) ==
  LET features == extract_risk_features(scan_data)
      X_scaled == scaler_transform(d.risk_scaler, features)
      prediction == model_predict(d.risk_model, X_scaled)
      overall_score == RMax(RInt(0), RMin(RInt(100), prediction))
      risk_level == _get_risk_level(overall_score)
  IN  [overall_score |-> Round1(overall_score),
       risk_level |-> risk_level.level,
       risk_color |-> risk_level.color,
       category_scores |-> _generate_category_scores(scan_data),
       scoring_method |-> "machine_learning"]

\* outcome of a Python call: a returned value or a raised exception
Return(v) == [raised |-> FALSE, value |-> v]

Raise(step) == [raised |-> TRUE, value |-> step]

_ml_based_scoring(scan_data, d) ==
  IF MlRaisingStep(scan_data, d) # "none"
  THEN Return(_rule_based_scoring(scan_data))
  ELSE Return(MlResponse(scan_data, d))

\* variant: neither function catches the exception of the model path
calculate_risk_score_unguarded(scan_data, d) ==
  IF path_exists(d.risk_model) /\ path_exists(d.risk_scaler)
  THEN IF MlRaisingStep(scan_data, d) # "none"
       THEN Raise(MlRaisingStep(scan_data, d))
       ELSE Return(MlResponse(scan_data, d))
  ELSE Return(_rule_based_scoring(scan_data))

calculate_risk_score(scan_data, d) ==
  LET body == IF path_exists(d.risk_model) /\ path_exists(d.risk_scaler)
              THEN _ml_based_scoring(scan_data, d)
              ELSE Return(_rule_based_scoring(scan_data))
  IN  IF body.raised THEN Return(_rule_based_scoring(scan_data)) ELSE body

(***************************************************************************)
(* Scan-data records given to the operations                               *)
(***************************************************************************)
\* a group that is absent, or present with one of the values
Opt(key, values) == {EmptyDict} \cup {key :> v : v \in values}

Finding(severity, title) == ("severity" :> severity) @@ ("title" :> title)

\* tests/models/test_risk_scoring.py: sample_scan_data
sample_findings == << Finding("Medium", "Finding 1"), Finding("Low", "Finding 2") >>

sample_ssl ==
  PyDict(("is_valid" :> TRUE) @@ ("days_to_expiry" :> 90) @@ ("cipher_strength" :> 128) @@
         ("has_pfs" :> TRUE) @@ ("vulnerabilities" :> <<>>))

sample_headers ==
  PyDict(("content_security_policy" :> TRUE) @@ ("x_frame_options" :> TRUE) @@
         ("strict_transport_security" :> TRUE) @@ ("x_content_type_options" :> TRUE) @@
         ("x_xss_protection" :> TRUE))

sample_content ==
  ("external_script_count" :> 2) @@ ("inline_script_count" :> 1) @@ ("form_count" :> 1) @@
  ("input_field_count" :> 3) @@ ("has_login_form" :> FALSE) @@ ("cookie_count" :> 2)

sample_server ==
  ("version_disclosed" :> FALSE) @@ ("is_outdated" :> FALSE) @@ ("open_port_count" :> 2) @@
  ("vulnerability_count" :> 0)

sample_reputation ==
  ("is_blacklisted" :> FALSE) @@ ("has_malware_history" :> FALSE) @@
  ("has_phishing_history" :> FALSE) @@ ("risk_score" :> RInt(5))

sample_scan_data ==
  ("findings" :> sample_findings) @@ ("ssl" :> sample_ssl) @@ ("headers" :> sample_headers) @@
  ("content_analysis" :> sample_content) @@ ("server_info" :> sample_server) @@
  ("domain_reputation" :> sample_reputation)

\* tests/models/test_risk_scoring.py: high_risk_scan_data
high_findings ==
  << Finding("Critical", "Critical Finding"), Finding("High", "High Finding 1"),
     Finding("High", "High Finding 2") >>

high_ssl ==
  PyDict(("is_valid" :> FALSE) @@ ("days_to_expiry" :> 5) @@ ("cipher_strength" :> 64) @@
         ("has_pfs" :> FALSE) @@ ("vulnerabilities" :> <<"POODLE", "HEARTBLEED">>))

high_headers ==
  PyDict(("content_security_policy" :> FALSE) @@ ("x_frame_options" :> FALSE) @@
         ("strict_transport_security" :> FALSE) @@ ("x_content_type_options" :> FALSE) @@
         ("x_xss_protection" :> FALSE))

high_content ==
  ("external_script_count" :> 8) @@ ("inline_script_count" :> 5) @@ ("form_count" :> 3) @@
  ("input_field_count" :> 12) @@ ("has_login_form" :> TRUE) @@ ("cookie_count" :> 10)

high_server ==
  ("version_disclosed" :> TRUE) @@ ("is_outdated" :> TRUE) @@ ("open_port_count" :> 15) @@
  ("vulnerability_count" :> 5)

high_reputation ==
  ("is_blacklisted" :> TRUE) @@ ("has_malware_history" :> TRUE) @@
  ("has_phishing_history" :> TRUE) @@ ("risk_score" :> RInt(85))

high_risk_scan_data ==
  ("findings" :> high_findings) @@ ("ssl" :> high_ssl) @@ ("headers" :> high_headers) @@
  ("content_analysis" :> high_content) @@ ("server_info" :> high_server) @@
  ("domain_reputation" :> high_reputation)

\* further values of the groups (schemas/analysis.py: no range is enforced
\* on the counts or on DomainReputation.risk_score)
all_headers ==
  PyDict(("content_security_policy" :> TRUE) @@ ("x_frame_options" :> TRUE) @@
         ("strict_transport_security" :> TRUE) @@ ("x_content_type_options" :> TRUE) @@
         ("x_xss_protection" :> TRUE) @@ ("referrer_policy" :> TRUE) @@
         ("permissions_policy" :> TRUE))

expiring_ssl ==
  PyDict(("is_valid" :> TRUE) @@ ("days_to_expiry" :> 5) @@
         ("vulnerabilities" :> <<"POODLE", "HEARTBLEED", "BEAST", "CRIME", "FREAK", "DROWN">>))

exposed_server ==
  ("open_port_count" :> 3) @@ ("exposed_services" :> <<"ftp", "redis">>) @@
  ("is_outdated" :> TRUE)

open_server ==
  ("open_port_count" :> 10) @@ ("exposed_services" :> <<"ftp", "redis", "telnet">>) @@
  ("is_outdated" :> TRUE)

negative_reputation == ("risk_score" :> RInt(-1000))

fractional_reputation == ("risk_score" :> Rat(647, 10))

\* lists of High findings followed by Info findings (the scorer does not
\* depend on the order of the findings)
RuleFindingLists ==
  UNION { { [i \in 1..n |-> IF i <= a THEN Finding("High", "h") ELSE Finding("Info", "i")] :
              a \in 0..n } : n \in 0..MaxFindings }

\* the scans scored with no persisted model
RuleScans ==
  { f @@ s @@ h @@ c @@ v @@ r :
      f \in Opt("findings", RuleFindingLists \cup {high_findings}),
      s \in Opt("ssl", {sample_ssl, high_ssl, expiring_ssl}),
      h \in Opt("headers", {high_headers, all_headers}),
      c \in Opt("content_analysis", {sample_content, high_content}),
      v \in Opt("server_info", {sample_server, exposed_server, open_server}),
      r \in Opt("domain_reputation", {sample_reputation, high_reputation, negative_reputation,
                                     fractional_reputation}) }
  \cup {sample_scan_data, high_risk_scan_data}

\* the scans scored against every state of the model directory
RiskScans ==
  { f @@ s @@ h @@ c @@ v @@ r :
      f \in Opt("findings", {high_findings}),
      s \in Opt("ssl", {high_ssl}),
      h \in Opt("headers", {all_headers}),
      c \in Opt("content_analysis", {high_content}),
      v \in Opt("server_info", {sample_server}),
      r \in Opt("domain_reputation", {sample_reputation}) }
  \cup {sample_scan_data, high_risk_scan_data}

(***************************************************************************)
(* States of the model directory                                           *)
(***************************************************************************)
RiskModelBlobs ==
  { [kind |-> "regressor", n_features_in |-> 31, intercept |-> c, coef |-> w] :
      c \in {Rat(-500, 100), Rat(1997, 100), Rat(4500, 100), Rat(25000, 100)},
      w \in {RInt(0), RInt(10)} }
  \cup { [kind |-> "regressor", n_features_in |-> 22, intercept |-> RInt(45), coef |-> RInt(0)] }

RiskScalerBlobs ==
  { [kind |-> "scaler", n_features_in |-> 31, mean |-> RInt(0), scale |-> 1],
    [kind |-> "scaler", n_features_in |-> 31, mean |-> RInt(1), scale |-> 2],
    [kind |-> "scaler", n_features_in |-> 22, mean |-> RInt(0), scale |-> 1] }

AnomalyModelBlobs ==
  { [kind |-> "iforest", n_features_in |-> n, feature |-> 6, threshold |-> t] :
      n \in {12, 10}, t \in {RInt(-1), RInt(2)} }
  \cup { [kind |-> "iforest", n_features_in |-> 12, feature |-> 7, threshold |-> RInt(1)] }

\* the files of settings.MODEL_PATH: per family the model, its scaler and
\* the metrics document
NoDisk ==
  [risk_model |-> AbsentBlob, risk_scaler |-> AbsentBlob, risk_metrics |-> AbsentBlob,
   threat_model |-> AbsentBlob, threat_scaler |-> AbsentBlob, threat_metrics |-> AbsentBlob,
   anomaly_model |-> AbsentBlob, anomaly_scaler |-> AbsentBlob,
   anomaly_metrics |-> AbsentBlob]

RiskDisks ==
  { [NoDisk EXCEPT !.risk_model = m, !.risk_scaler = s] :
      m \in {AbsentBlob, CorruptBlob} \cup RiskModelBlobs,
      s \in {AbsentBlob, CorruptBlob} \cup RiskScalerBlobs }

(***************************************************************************)
(* State and operations                                                    *)
(***************************************************************************)
NoCall == [called |-> FALSE]

NoFeatures == [domain |-> "none"]

\* a request to calculate_risk_score(scan); prev keeps the outcome of the
\* call before it on the same scan and the same files
CalculateRiskScore ==
  /\ risk' = [called |-> TRUE,
              path |-> IF path_exists(disk.risk_model) /\ path_exists(disk.risk_scaler)
                       THEN "model" ELSE "no_model",
              exc |-> IF path_exists(disk.risk_model) /\ path_exists(disk.risk_scaler)
                      THEN MlRaisingStep(scan, disk) ELSE "none",
              outcome |-> calculate_risk_score(scan, disk)]
  /\ prev' = risk
  /\ UNCHANGED <<scan, disk, feat, anomaly, threat, loaded>>

InitRisk ==
  /\ \/ scan \in RuleScans /\ disk = NoDisk
     \/ scan \in RiskScans /\ disk \in RiskDisks
  /\ risk = NoCall
  /\ prev = NoCall
  /\ feat = NoFeatures
  /\ anomaly = NoCall
  /\ threat = NoCall
  /\ loaded = NoCall
  /\ ops = 0
  /\ procs = <<>>

NextRisk == CalculateRiskScore /\ UNCHANGED <<ops, procs>>

SpecRisk == InitRisk /\ [][NextRisk]_vars

(***************************************************************************)
(* The rule-based scorer on scans that differ in one trait                 *)
(***************************************************************************)
\* finding items by severity: the five names of severity_weights, a name
\* outside them, and an item that carries no severity
SeverityItems ==
  << Finding("Critical", "f"), Finding("High", "f"), Finding("Medium", "f"),
     Finding("Low", "f"), Finding("Info", "f"), Finding("Unknown", "f"), "title" :> "f" >>

\* scans for the vulnerability and the compliance scores: every multiset of
\* up to MaxFindings finding items (the scores do not depend on the order of
\* the findings), and every number of required headers with every state of
\* the certificate
RuleInputScans ==
  { f : f \in Opt("findings",
               UNION { { [i \in 1..n |-> SeverityItems[s[i]]] :
                           s \in { t \in [1..n -> 1..Len(SeverityItems)] :
                                     \A i \in 1..(n - 1) : t[i] <= t[i + 1] } } :
                       n \in 0..MaxFindings }) }
  \cup
  { f @@ h @@ s :
      f \in Opt("findings", {sample_findings}),
      h \in Opt("headers",
               { PyDict([x \in {required_headers[i] : i \in 1..k} |-> TRUE]) : k \in 0..6 }),
      s \in Opt("ssl",
               { PyDict(v @@ e @@ ("vulnerabilities" :> [i \in 1..m |-> "CVE"])) :
                   v \in Opt("is_valid", BOOLEAN),
                   e \in Opt("days_to_expiry", {90}),
                   m \in 0..MaxVulns }) }

\* the scan changes in one trait (a required header goes, the certificate
\* becomes invalid, or one more SSL vulnerability is found) and is scored
\* again; prev keeps the result for the scan before the change
ScoreChangedScan ==
  LET headers == _get(scan, "headers", PyDict(EmptyDict)).v
      ssl == _get(scan, "ssl", PyDict(EmptyDict)).v
      vulns == _get(ssl, "vulnerabilities", <<>>)
  IN  /\ risk.called
      /\ \/ \E h \in {required_headers[i] : i \in 1..Len(required_headers)} :
              /\ _get(headers, h, FALSE)
              /\ scan' = ("headers" :> PyDict([x \in DOMAIN headers \ {h} |-> headers[x]]))
                            @@ scan
         \/ /\ _get(ssl, "is_valid", FALSE)
            /\ scan' = ("ssl" :> PyDict(("is_valid" :> FALSE) @@ ssl)) @@ scan
         \/ /\ Len(vulns) < MaxVulns
            /\ scan' = ("ssl" :> PyDict(("vulnerabilities" :> Append(vulns, "CVE")) @@ ssl))
                          @@ scan
      /\ risk' = [called |-> TRUE, path |-> "no_model", exc |-> "none",
                  outcome |-> calculate_risk_score(scan', disk)]
      /\ prev' = risk
      /\ UNCHANGED <<disk, feat, anomaly, threat, loaded>>

InitRule ==
  /\ scan \in RuleInputScans
  /\ disk = NoDisk
  /\ risk = NoCall
  /\ prev = NoCall
  /\ feat = NoFeatures
  /\ anomaly = NoCall
  /\ threat = NoCall
  /\ loaded = NoCall
  /\ ops = 0
  /\ procs = <<>>

NextRule ==
  \/ CalculateRiskScore /\ UNCHANGED <<ops, procs>>
  \/ ScoreChangedScan /\ UNCHANGED <<ops, procs>>

SpecRule == InitRule /\ [][NextRule]_vars

(***************************************************************************)
(* Feature extraction as an operation of its own                           *)
(***************************************************************************)
\* tests/models/test_anomaly_detection.py and api/analyze.py: summary
\* scores, and headers/ssl given as lists of finding items
sample_summary ==
  ("overall" :> 75) @@ ("ssl" :> 80) @@ ("headers" :> 70) @@ ("vulnerabilities" :> 60) @@
  ("server" :> 85)

anomalous_summary ==
  ("overall" :> 35) @@ ("ssl" :> 30) @@ ("headers" :> 40) @@ ("vulnerabilities" :> 25) @@
  ("server" :> 45)

sample_url_info ==
  ("subdomain_count" :> 1) @@ ("path_depth" :> 2) @@ ("query_param_count" :> 3) @@
  ("uses_https" :> TRUE)

suspicious_content ==
  ("suspicious_script_count" :> 2) @@ ("external_link_count" :> 4) @@ ("form_count" :> 1) @@
  ("iframe_count" :> 1) @@ ("redirect_count" :> 1) @@ ("cookie_count" :> 2)

AnomalyScans ==
  { m @@ f @@ h @@ s :
      m \in Opt("summary", {sample_summary, anomalous_summary}),
      f \in Opt("findings", {sample_findings, high_findings,
                             << Finding("Urgent", "unrecognized"), EmptyDict >>}),
      h \in Opt("headers", {PyList(<<>>), PyList(<< Finding("Medium", "Header issue") >>),
                            PyList(<< Finding("High", "Serious Header issue") >>),
                            PyDict(EmptyDict), sample_headers}),
      s \in Opt("ssl", {PyList(<< Finding("Critical", "Critical SSL issue") >>), sample_ssl}) }

FeatScans ==
  AnomalyScans \cup RiskScans
  \cup { c @@ u @@ h : c \in Opt("content_analysis", {suspicious_content}),
                       u \in Opt("url_info", {sample_url_info}),
                       h \in Opt("headers", {sample_headers, PyList(<<>>)}) }

\* a call of risk_scoring _extract_features on the scan
ExtractRiskFeatures ==
  /\ feat' = [domain |-> "risk", raised |-> ~ DictShaped(scan),
              vec |-> IF DictShaped(scan) THEN extract_risk_features(scan) ELSE <<>>]
  /\ UNCHANGED <<scan, disk, risk, prev, anomaly, threat, loaded>>

\* a call of threat_detection _extract_features on the scan
ExtractThreatFeatures ==
  /\ feat' = [domain |-> "threat", raised |-> ~ DictShaped(scan),
              vec |-> IF DictShaped(scan) THEN extract_threat_features(scan) ELSE <<>>]
  /\ UNCHANGED <<scan, disk, risk, prev, anomaly, threat, loaded>>

\* a call of anomaly_detection _extract_features on the scan
ExtractAnomalyFeatures ==
  /\ feat' = [domain |-> "anomaly", raised |-> anomaly_extract_raises(scan),
              vec |-> IF anomaly_extract_raises(scan) THEN <<>>
                      ELSE extract_anomaly_features(scan)]
  /\ UNCHANGED <<scan, disk, risk, prev, anomaly, threat, loaded>>

InitFeat ==
  /\ scan \in FeatScans
  /\ disk = NoDisk
  /\ risk = NoCall
  /\ prev = NoCall
  /\ feat = NoFeatures
  /\ anomaly = NoCall
  /\ threat = NoCall
  /\ loaded = NoCall
  /\ ops = 0
  /\ procs = <<>>

NextFeat ==
  \/ ExtractRiskFeatures /\ UNCHANGED <<ops, procs>>
  \/ ExtractThreatFeatures /\ UNCHANGED <<ops, procs>>
  \/ ExtractAnomalyFeatures /\ UNCHANGED <<ops, procs>>

SpecFeat == InitFeat /\ [][NextFeat]_vars

(***************************************************************************)
(* anomaly_detection/isolation_forest.py: detect_anomalies                 *)
(***************************************************************************)
\* what can happen to _train_model: it fits and saves the model, or
\* os.makedirs / joblib.dump raises before or while the file is written
TrainOutcomes == {"saved", "failed", "failed_partial_file"}

\* the forests that fitting on np.random.rand(100, 12) with seed 42 can give
BootstrapBlobs ==
  { [kind |-> "iforest", n_features_in |-> 12, feature |-> 6, threshold |-> t] :
      t \in {RInt(-1), RInt(2)} }

\* IsolationForest.predict(X)[0]: -1 for an outlier, 1 otherwise; the forest
\* separates vectors by the value of one feature
iforest_predict_raises(model, X) == model.n_features_in # Len(X)

iforest_predict(model, X) == IF RLt(model.threshold, X[model.feature]) THEN -1 ELSE 1

\* StandardScaler().fit_transform(X) of the single row X: the mean is the
\* row itself, the variance is 0 and is replaced by 1, so every entry is 0
fit_transform_single(X) == [i \in 1..Len(X) |-> RSub(X[i], X[i])]

\* _train_model (lines 116-144): the model directory after it, and whether
\* it re-raised
_train_model(d, outcome, fitted) ==
  CASE outcome = "saved" ->
         [raised |-> FALSE, disk |-> [d EXCEPT !.anomaly_model = fitted]]
    [] outcome = "failed" ->
         [raised |-> TRUE, disk |-> d]
    [] outcome = "failed_partial_file" ->
         [raised |-> TRUE, disk |-> [d EXCEPT !.anomaly_model = CorruptBlob]]

\* the try block of detect_anomalies (lines 28-49) after the model file is
\* ensured: the step that raises, or "none"
DetectRaisingStep(scan_data, d) ==
  IF joblib_load_raises(d.anomaly_model) THEN "load_model"
  ELSE IF anomaly_extract_raises(scan_data) THEN "extract_features"
  ELSE IF iforest_predict_raises(d.anomaly_model,
            fit_transform_single(extract_anomaly_features(scan_data)))
       THEN "predict"
  ELSE "none"

DetectLabel(scan_data, d) ==
  iforest_predict(d.anomaly_model, fit_transform_single(extract_anomaly_features(scan_data)))

\* variant: the handler logs the exception and raises it again
detect_anomalies_reraising(scan_data, d, outcome, fitted) ==
  LET trains == ~ path_exists(d.anomaly_model)
      trained == IF trains THEN _train_model(d, outcome, fitted)
                 ELSE [raised |-> FALSE, disk |-> d]
      step == IF trained.raised THEN "train_model"
              ELSE DetectRaisingStep(scan_data, trained.disk)
  IN  [outcome |-> IF step # "none" THEN Raise(step)
                   ELSE Return(DetectLabel(scan_data, trained.disk) = -1),
       trained |-> trains,
       exc |-> step,
       disk |-> trained.disk]

\* variant: a missing model file is not trained, the load fails instead
detect_anomalies_untrained(scan_data, d, outcome, fitted) ==
  LET step == DetectRaisingStep(scan_data, d)
  IN  [outcome |-> IF step # "none" THEN Return(FALSE)
                   ELSE Return(DetectLabel(scan_data, d) = -1),
       trained |-> FALSE,
       exc |-> step,
       disk |-> d]

\* variant: a model file that cannot be loaded is trained anew as well
detect_anomalies_retraining(scan_data, d, outcome, fitted) ==
  LET trains == joblib_load_raises(d.anomaly_model)
      trained == IF trains THEN _train_model(d, outcome, fitted)
                 ELSE [raised |-> FALSE, disk |-> d]
      step == IF trained.raised THEN "train_model"
              ELSE DetectRaisingStep(scan_data, trained.disk)
  IN  [outcome |-> IF step # "none" THEN Return(FALSE)
                   ELSE Return(DetectLabel(scan_data, trained.disk) = -1),
       trained |-> trains,
       exc |-> step,
       disk |-> trained.disk]

\* detect_anomalies (lines 17-52): outcome of the call, the step that raised
\* inside it, and the model directory after it
detect_anomalies(scan_data, d, outcome, fitted) ==
  LET trains == ~ path_exists(d.anomaly_model)
      trained == IF trains THEN _train_model(d, outcome, fitted)
                 ELSE [raised |-> FALSE, disk |-> d]
      step == IF trained.raised THEN "train_model"
              ELSE DetectRaisingStep(scan_data, trained.disk)
  IN  [outcome |-> IF step # "none" THEN Return(FALSE)
                   ELSE Return(DetectLabel(scan_data, trained.disk) = -1),
       trained |-> trains,
       exc |-> step,
       disk |-> trained.disk]

DetectAnomalies ==
  \E outcome \in TrainOutcomes, fitted \in BootstrapBlobs :
    LET call == detect_anomalies(scan, disk, outcome, fitted)
    IN  /\ anomaly' = [called |-> TRUE, trained |-> call.trained, exc |-> call.exc,
                       outcome |-> call.outcome]
        /\ disk' = call.disk
        /\ UNCHANGED <<scan, risk, prev, feat, threat, loaded>>

AnomalyDisks ==
  { [NoDisk EXCEPT !.anomaly_model = m] :
      m \in {AbsentBlob, CorruptBlob} \cup AnomalyModelBlobs }

InitAnomaly ==
  /\ scan \in AnomalyScans
  /\ disk \in AnomalyDisks
  /\ risk = NoCall
  /\ prev = NoCall
  /\ feat = NoFeatures
  /\ anomaly = NoCall
  /\ threat = NoCall
  /\ loaded = NoCall
  /\ ops = 0
  /\ procs = <<>>

NextAnomaly == DetectAnomalies /\ UNCHANGED <<ops, procs>>

SpecAnomaly == InitAnomaly /\ [][NextAnomaly]_vars

(***************************************************************************)
(* threat_detection/classifier.py: classify_threats                        *)
(***************************************************************************)
THREAT_CATEGORIES ==
  << "malware", "phishing", "command_injection", "sql_injection", "xss", "csrf",
     "open_redirect", "insecure_deserialization", "none" >>

_get_severity_from_probability(probability) ==
  IF RLt(probability, Rat(2, 10)) THEN "Info"
  ELSE IF RLt(probability, Rat(4, 10)) THEN "Low"
  ELSE IF RLt(probability, Rat(6, 10)) THEN "Medium"
  ELSE IF RLt(probability, Rat(8, 10)) THEN "High"
  ELSE "Critical"

\* the lookup table of _get_recommendations
recommendations ==
  [malware |->
     << "Scan the entire site with a malware scanner",
        "Check for unauthorized file modifications",
        "Review server logs for suspicious activities",
        "Ensure all CMS and plugins are up to date" >>,
   phishing |->
     << "Verify legitimacy of all forms collecting user data",
        "Implement anti-phishing headers (DMARC, SPF, DKIM)",
        "Review all scripts for suspicious behavior",
        "Add client-side form validation" >>,
   command_injection |->
     << "Sanitize all user inputs used in system commands",
        "Implement input validation for all parameters",
        "Use parameterized APIs instead of direct command execution",
        "Apply the principle of least privilege for execution contexts" >>,
   sql_injection |->
     << "Use parameterized queries or prepared statements",
        "Implement input validation for all database queries",
        "Apply proper escaping for user-supplied data",
        "Consider using an ORM with built-in protections" >>,
   xss |->
     << "Implement Content-Security-Policy headers",
        "Sanitize all user inputs displayed on pages",
        "Use framework-provided XSS protection features",
        "Encode output appropriately for the HTML context" >>,
   csrf |->
     << "Implement anti-CSRF tokens in all forms",
        "Use SameSite cookie attributes",
        "Verify the Origin and Referer headers",
        "Consider using the Double Submit Cookie pattern" >>,
   open_redirect |->
     << "Validate and sanitize all redirect URLs",
        "Use a whitelist of allowed redirect destinations",
        "Implement indirect reference maps for redirects",
        "Consider not allowing external redirects at all" >>,
   insecure_deserialization |->
     << "Avoid deserializing data from untrusted sources",
        "Implement integrity checks for serialized data",
        "Use safer alternatives like JSON with schema validation",
        "Apply the principle of least privilege for deserialization processes" >>,
   none |->
     << "Continue regular security scanning",
        "Keep all software and dependencies up to date",
        "Implement security headers if not already present",
        "Consider a Web Application Firewall for additional protection" >>]

_get_recommendations(threat_type) ==
  IF threat_type \in DOMAIN recommendations THEN recommendations[threat_type]
  ELSE recommendations["none"]

\* str.lower() on the texts that name findings in the generated scans
lower(text) ==
  CASE text = "SQL Injection in login form" -> "sql injection in login form"
    [] text = "Blind SQL injection" -> "blind sql injection"
    [] text = "Reflected XSS" -> "reflected xss"
    [] text = "CSRF token missing" -> "csrf token missing"
    [] text = "Open Redirect" -> "open redirect"
    [] text = "Command Injection" -> "command injection"
    [] text = "Deserialize of untrusted data" -> "deserialize of untrusted data"
    [] text = "Outdated library" -> "outdated library"
    [] OTHER -> text

\* "keyword in name": the keywords of the fallback that occur in a lowered text
KeywordsIn(name) ==
  CASE name = "sql injection in login form" -> {"sql", "injection"}
    [] name = "blind sql injection" -> {"sql", "injection"}
    [] name = "reflected xss" -> {"xss"}
    [] name = "csrf token missing" -> {"csrf"}
    [] name = "open redirect" -> {"redirect"}
    [] name = "command injection" -> {"injection"}
    [] name = "deserialize of untrusted data" -> {"serialize", "deserialize"}
    [] OTHER -> {}

\* RandomForestClassifier.predict_proba(X)[0]: one probability per class the
\* forest was fitted on; the forest splits on one scaled feature
predict_proba_raises(model, X) == model.n_features_in # Len(X)

predict_proba(model, X) ==
  IF RLt(model.threshold, X[model.feature]) THEN model.proba_above ELSE model.proba_below

\* the loop of lines 74-84 over THREAT_CATEGORIES from index i on: the
\* primary threat and its probability
\* variant: the loop does not leave "none" out
RECURSIVE PrimaryThreat_with_none(_, _, _)
PrimaryThreat_with_none(threat_probs, i, result) ==
  IF i > Len(THREAT_CATEGORIES) THEN result
  ELSE PrimaryThreat_with_none(threat_probs, i + 1,
         IF RLt(result.threat_confidence, threat_probs[i])
         THEN [primary_threat_type |-> THREAT_CATEGORIES[i],
               threat_confidence |-> threat_probs[i]]
         ELSE result)

RECURSIVE PrimaryThreat(_, _, _)
PrimaryThreat(threat_probs, i, result) ==
  IF i > Len(THREAT_CATEGORIES) THEN result
  ELSE PrimaryThreat(threat_probs, i + 1,
         IF THREAT_CATEGORIES[i] # "none" /\ RLt(result.threat_confidence, threat_probs[i])
         THEN [primary_threat_type |-> THREAT_CATEGORIES[i],
               threat_confidence |-> threat_probs[i]]
         ELSE result)

\* the step of the try block of classify_threats (lines 51-93) that raises,
\* or "none"
ClassifyRaisingStep(scan_data, d) ==
  IF joblib_load_raises(d.threat_model) THEN "load_model"
  ELSE IF joblib_load_raises(d.threat_scaler) THEN "load_scaler"
  ELSE IF ~ DictShaped(scan_data) THEN "extract_features"
  ELSE
    LET features == extract_threat_features(scan_data)
    IN  IF scaler_transform_raises(d.threat_scaler, features) THEN "transform"
        ELSE IF predict_proba_raises(d.threat_model,
                  scaler_transform(d.threat_scaler, features))
             THEN "predict_proba"
        ELSE IF Len(predict_proba(d.threat_model,
                      scaler_transform(d.threat_scaler, features)))
                  < Len(THREAT_CATEGORIES)
             THEN "threat_probs_index"
        ELSE "none"

\* lines 56-93 of a call in which no step raises
ModelClassification(scan_data, d) ==
  LET features == extract_threat_features(scan_data)
      X_scaled == scaler_transform(d.threat_scaler, features)
      threat_probs == predict_proba(d.threat_model, X_scaled)
      primary == PrimaryThreat(threat_probs, 1,
                   [primary_threat_type |-> "none", threat_confidence |-> RInt(0)])
      detected == RLe(Rat(6, 10), primary.threat_confidence)
  IN  [threat_detected |-> detected,
       primary_threat_type |-> primary.primary_threat_type,
       threat_confidence |-> primary.threat_confidence,
       threat_details |->
         [c \in {THREAT_CATEGORIES[i] : i \in 1..Len(THREAT_CATEGORIES)} |->
            LET i == CHOOSE j \in 1..Len(THREAT_CATEGORIES) : THREAT_CATEGORIES[j] = c
            IN  [probability |-> threat_probs[i],
                 severity |-> _get_severity_from_probability(threat_probs[i])]]]
      @@ (IF detected
          THEN "recommendations" :> _get_recommendations(primary.primary_threat_type)
          ELSE EmptyDict)

\* lines 227-244: the threat type read off the names of the Critical findings
ThreatTypeOfNames(finding_names) ==
  LET any(keywords) ==
        \E i \in 1..Len(finding_names) : KeywordsIn(finding_names[i]) \cap keywords # {}
  IN  IF any({"sql"}) THEN "sql_injection"
      ELSE IF any({"xss"}) THEN "xss"
      ELSE IF any({"csrf"}) THEN "csrf"
      ELSE IF any({"redirect"}) THEN "open_redirect"
      ELSE IF any({"injection"}) THEN "command_injection"
      ELSE IF any({"serialize", "deserialize"}) THEN "insecure_deserialization"
      ELSE "malware"

\* [f for f in findings if f.get("severity") == "Critical"], the filter kept
\* as the list of indices
RECURSIVE SelectCritical(_, _)
SelectCritical(findings, i) ==
  IF i > Len(findings) THEN <<>>
  ELSE (IF _get(findings[i], "severity", "None") = "Critical" THEN << findings[i] >> ELSE <<>>)
         \o SelectCritical(findings, i + 1)

_fallback_detection(scan_data) ==
  LET findings == _get(scan_data, "findings", <<>>)
      content == _get(scan_data, "content_analysis", EmptyDict)
      critical_findings == SelectCritical(findings, 1)
      finding_names ==
        [i \in 1..Len(critical_findings) |-> lower(_get(critical_findings[i], "name", ""))]
      by_findings ==
        IF Len(critical_findings) > 0
        THEN [threat_detected |-> TRUE,
              primary_threat_type |-> ThreatTypeOfNames(finding_names),
              threat_confidence |-> Rat(8, 10)]
        ELSE [threat_detected |-> FALSE,
              primary_threat_type |-> "none",
              threat_confidence |-> RInt(0)]
      suspicious_script == _get(content, "suspicious_script_count", 0)
      form_count == _get(content, "form_count", 0)
      phishing_confidence ==
        RMin(Rat(7, 10),
             RAdd(RAdd(Rat(3, 10), RMul(RInt(form_count), Rat(1, 10))),
                  RMul(RInt(suspicious_script), Rat(1, 10))))
      result ==
        IF form_count > 0 /\ suspicious_script > 0
             /\ RLt(by_findings.threat_confidence, phishing_confidence)
        THEN [threat_detected |-> TRUE,
              primary_threat_type |-> "phishing",
              threat_confidence |-> phishing_confidence]
        ELSE by_findings
      details ==
        [c \in {THREAT_CATEGORIES[i] : i \in 1..Len(THREAT_CATEGORIES)} |->
           IF c = result.primary_threat_type /\ c # "none"
           THEN [probability |-> result.threat_confidence,
                 severity |-> _get_severity_from_probability(result.threat_confidence)]
           ELSE [probability |-> RInt(0), severity |-> "Info"]]
  IN  [threat_detected |-> result.threat_detected,
       primary_threat_type |-> result.primary_threat_type,
       threat_confidence |-> result.threat_confidence,
       threat_details |-> details]
      @@ (IF result.primary_threat_type # "none"
          THEN "recommendations" :> _get_recommendations(result.primary_threat_type)
          ELSE EmptyDict)

\* variant: the exception of the model path reaches the caller
classify_threats_unguarded(scan_data, d) ==
  IF ~ path_exists(d.threat_model) \/ ~ path_exists(d.threat_scaler)
  THEN [outcome |-> Return(_fallback_detection(scan_data)), path |-> "no_model",
        exc |-> "none"]
  ELSE IF ClassifyRaisingStep(scan_data, d) # "none"
  THEN [outcome |-> Raise(ClassifyRaisingStep(scan_data, d)), path |-> "model",
        exc |-> ClassifyRaisingStep(scan_data, d)]
  ELSE [outcome |-> Return(ModelClassification(scan_data, d)), path |-> "model",
        exc |-> "none"]

\* classify_threats (lines 35-97): the result, the path taken and the step
\* that raised on the model path
classify_threats(scan_data, d) ==
  IF ~ path_exists(d.threat_model) \/ ~ path_exists(d.threat_scaler)
  THEN [outcome |-> Return(_fallback_detection(scan_data)), path |-> "no_model",
        exc |-> "none"]
  ELSE IF ClassifyRaisingStep(scan_data, d) # "none"
  THEN [outcome |-> Return(_fallback_detection(scan_data)), path |-> "model",
        exc |-> ClassifyRaisingStep(scan_data, d)]
  ELSE [outcome |-> Return(ModelClassification(scan_data, d)), path |-> "model",
        exc |-> "none"]

\* a finding item as the fallback reads it (f.get("name")), next to the
\* Finding items of the data model, which carry a "title"
NamedFinding(severity, name) == ("severity" :> severity) @@ ("name" :> name)

\* three Critical findings whose titles contain "sql"
sql_titled_findings ==
  << Finding("Critical", "SQL Injection in login form"),
     Finding("Critical", "Blind SQL injection"),
     Finding("Critical", "SQL Injection in login form") >>

ThreatFindingItems ==
  { NamedFinding("Critical", n) :
      n \in {"SQL Injection in login form", "Reflected XSS", "CSRF token missing",
             "Open Redirect", "Command Injection", "Deserialize of untrusted data",
             "Outdated library"} }
  \cup { NamedFinding("High", "Blind SQL injection"),
         Finding("Critical", "Reflected XSS"),
         Finding("Medium", "Finding 1") }

ThreatFindingLists ==
  UNION { [1..n -> ThreatFindingItems] : n \in 0..(MaxFindings - 1) }
  \cup {sql_titled_findings}

ThreatContents ==
  { ("suspicious_script_count" :> s) @@ ("form_count" :> f) : s \in 0..2, f \in 0..2 }
  \cup {suspicious_content}

ThreatScans ==
  { f @@ c @@ h :
      f \in Opt("findings", ThreatFindingLists),
      c \in Opt("content_analysis", ThreatContents),
      h \in Opt("headers", {sample_headers}) }

\* probability vectors of a fitted forest, given per category
Proba(assigned) ==
  [i \in 1..Len(THREAT_CATEGORIES) |->
     IF THREAT_CATEGORIES[i] \in DOMAIN assigned THEN assigned[THREAT_CATEGORIES[i]]
     ELSE RInt(0)]

ProbaVectors ==
  { Proba("none" :> RInt(1)),
    Proba(("malware" :> Rat(6, 10)) @@ ("none" :> Rat(4, 10))),
    Proba(("malware" :> Rat(59, 100)) @@ ("none" :> Rat(41, 100))),
    Proba(("phishing" :> Rat(3, 10)) @@ ("xss" :> Rat(3, 10)) @@ ("none" :> Rat(4, 10))),
    Proba(("command_injection" :> Rat(5, 10)) @@ ("open_redirect" :> Rat(5, 10))),
    Proba(("sql_injection" :> Rat(9, 10)) @@ ("none" :> Rat(1, 10))),
    Proba(("insecure_deserialization" :> Rat(3, 10)) @@ ("none" :> Rat(7, 10))) }

\* the forest saved by threat_detection/training.py: fitted on the 25
\* features of _extract_features, or on the 22 columns of the synthetic
\* data, and on as many classes as the labels had
ThreatModelBlobs ==
  { [kind |-> "classifier", n_features_in |-> 25, feature |-> 1, threshold |-> RInt(0),
     proba_below |-> p, proba_above |-> q] :
      p \in ProbaVectors,
      q \in {Proba(("sql_injection" :> Rat(9, 10)) @@ ("none" :> Rat(1, 10))),
             Proba("none" :> RInt(1))} }
  \cup { [kind |-> "classifier", n_features_in |-> 22, feature |-> 1, threshold |-> RInt(0),
          proba_below |-> Proba("none" :> RInt(1)), proba_above |-> Proba("none" :> RInt(1))],
         [kind |-> "classifier", n_features_in |-> 25, feature |-> 1, threshold |-> RInt(0),
          proba_below |-> << Rat(1, 10), Rat(9, 10) >>,
          proba_above |-> << Rat(1, 10), Rat(9, 10) >>] }

ThreatScalerBlobs ==
  { [kind |-> "scaler", n_features_in |-> 25, mean |-> RInt(0), scale |-> 1],
    [kind |-> "scaler", n_features_in |-> 22, mean |-> RInt(0), scale |-> 1] }

ThreatDisks ==
  { [NoDisk EXCEPT !.threat_model = m, !.threat_scaler = s] :
      m \in {AbsentBlob, CorruptBlob} \cup ThreatModelBlobs,
      s \in {AbsentBlob, CorruptBlob} \cup ThreatScalerBlobs }

ThreatModelScans ==
  { f @@ c @@ h :
      f \in Opt("findings", {sql_titled_findings,
                             << NamedFinding("Critical", "Reflected XSS") >>,
                             << Finding("Medium", "Finding 1") >>}),
      c \in Opt("content_analysis", {suspicious_content}),
      h \in Opt("headers", {sample_headers, PyList(<<>>)}) }

\* a request to classify_threats(scan)
ClassifyThreats ==
  /\ threat' = [called |-> TRUE] @@ classify_threats(scan, disk)
  /\ UNCHANGED <<scan, disk, risk, prev, feat, anomaly, loaded>>

InitThreat ==
  /\ \/ scan \in ThreatScans /\ disk = NoDisk
     \/ scan \in ThreatModelScans /\ disk \in ThreatDisks
  /\ risk = NoCall
  /\ prev = NoCall
  /\ feat = NoFeatures
  /\ anomaly = NoCall
  /\ threat = NoCall
  /\ loaded = NoCall
  /\ ops = 0
  /\ procs = <<>>

NextThreat == ClassifyThreats /\ UNCHANGED <<ops, procs>>

SpecThreat == InitThreat /\ [][NextThreat]_vars

(***************************************************************************)
(* */training.py: train_model, _save_model and load_model of the families  *)
(***************************************************************************)
Families == {"risk", "threat", "anomaly"}

\* MODEL_PATH, SCALER_PATH and METRICS_PATH of a family's training module
ModelFile(family) ==
  CASE family = "risk" -> "risk_model"
    [] family = "threat" -> "threat_model"
    [] family = "anomaly" -> "anomaly_model"

ScalerFile(family) ==
  CASE family = "risk" -> "risk_scaler"
    [] family = "threat" -> "threat_scaler"
    [] family = "anomaly" -> "anomaly_scaler"

MetricsFile(family) ==
  CASE family = "risk" -> "risk_metrics"
    [] family = "threat" -> "threat_metrics"
    [] family = "anomaly" -> "anomaly_metrics"

\* the training_data argument: None, a list of fewer than 100 labelled
\* scans, or a list of at least 100
TrainingData == {"none", "few", "real"}

\* risk and threat fall back to synthetic data below 100 entries, anomaly
\* only when data is None
UsesSyntheticData(family, training_data) ==
  IF family = "anomaly" THEN training_data = "none"
  ELSE training_data \in {"none", "few"}

\* threat _generate_synthetic_data(n_samples) (lines 142-257): n_samples // 9
\* rows are generated for each of the 9 categories and stacked, then
\* X[indices] is taken with indices a permutation of arange(n_samples): an
\* IndexError when fewer than n_samples rows were stacked
_generate_synthetic_data(n_samples) ==
  LET n_classes == Len(THREAT_CATEGORIES)
      samples_per_class == n_samples \div n_classes
      stacked == samples_per_class * n_classes
  IN  IF stacked < n_samples THEN Raise("generate_synthetic_data")
      ELSE Return([rows |-> n_samples, labels |-> n_samples,
                   classes |-> IF samples_per_class > 0 THEN n_classes ELSE 0])

\* train_model calls the generator of its family with the default
\* n_samples = 1000; those of the risk and anomaly families build exactly
\* n_samples rows
generate_synthetic_data_raises(family) ==
  family = "threat" /\ _generate_synthetic_data(1000).raised

\* sorted() of the category names: Python compares strings by code point
SortedCategories ==
  << "command_injection", "csrf", "insecure_deserialization", "malware", "none",
     "open_redirect", "phishing", "sql_injection", "xss" >>

\* threat _prepare_data (lines 104-139) on samples with the given set of
\* threat_type labels: class_names = sorted(set(labels)), and label_map
\* numbers the labels in that order, so that the forest's i-th class is
\* class_names[i]
_prepare_data(labels) == SelectSeq(SortedCategories, LAMBDA c : c \in labels)

\* the probabilities of a fitted forest, one per class in the order of its
\* class indices, given per training label; the synthetic data are labelled
\* with the indices of THREAT_CATEGORIES (lines 166, 246)
ClassProba(classes, assigned) ==
  [i \in 1..Len(classes) |->
     IF classes[i] \in DOMAIN assigned THEN assigned[classes[i]] ELSE RInt(0)]

\* the estimator, scaler and metrics a training run fits: the seed is fixed,
\* so a run on the same data gives the same artifacts
FittedModel(family, synthetic) ==
  CASE family = "risk" ->
         [kind |-> "regressor", n_features_in |-> 31,
          intercept |-> IF synthetic THEN RInt(45) ELSE Rat(1997, 100),
          coef |-> IF synthetic THEN RInt(10) ELSE RInt(0)]
    [] family = "threat" ->
         LET classes == IF synthetic THEN THREAT_CATEGORIES
                        ELSE _prepare_data({THREAT_CATEGORIES[i] :
                                              i \in 1..Len(THREAT_CATEGORIES)})
         IN  [kind |-> "classifier", n_features_in |-> IF synthetic THEN 22 ELSE 25,
              feature |-> 1, threshold |-> RInt(0), classes |-> classes,
              proba_below |-> ClassProba(classes, "none" :> RInt(1)),
              proba_above |-> ClassProba(classes, ("sql_injection" :> Rat(9, 10))
                                                  @@ ("none" :> Rat(1, 10)))]
    [] family = "anomaly" ->
         [kind |-> "iforest", n_features_in |-> 12, feature |-> 6,
          threshold |-> IF synthetic THEN RInt(2) ELSE RInt(-1)]

FittedScaler(family, synthetic) ==
  CASE family = "risk" ->
         [kind |-> "scaler", n_features_in |-> 31, mean |-> RInt(1), scale |-> 2]
    [] family = "threat" ->
         [kind |-> "scaler", n_features_in |-> IF synthetic THEN 22 ELSE 25,
          mean |-> RInt(0), scale |-> 1]
    [] family = "anomaly" ->
         [kind |-> "scaler", n_features_in |-> 12, mean |-> RInt(0), scale |-> 1]

EvaluatedMetrics(family) ==
  [kind |-> "metrics",
   model_type |-> CASE family = "risk" -> "GradientBoostingRegressor"
                    [] family = "threat" -> "RandomForestClassifier"
                    [] family = "anomaly" -> "IsolationForest"]

\* what can happen to _save_model: every file is written, or os.makedirs,
\* a joblib.dump or the writing of the metrics raises; the file being
\* written when the exception comes is left incomplete
SaveOutcomes == {"saved", "failed_makedirs", "failed_model", "failed_scaler", "failed_metrics"}

\* variant: a saving that fails removes the family's files before re-raising
_save_model_cleaning(d, family, model, scaler, metrics, io) ==
  IF io = "saved"
  THEN [raised |-> FALSE,
        disk |-> [d EXCEPT ![ModelFile(family)] = model, ![ScalerFile(family)] = scaler,
                           ![MetricsFile(family)] = metrics]]
  ELSE [raised |-> TRUE,
        disk |-> [d EXCEPT ![ModelFile(family)] = AbsentBlob,
                           ![ScalerFile(family)] = AbsentBlob,
                           ![MetricsFile(family)] = AbsentBlob]]

\* _save_model: the model directory after it, and whether it re-raised
_save_model(d, family, model, scaler, metrics, io) ==
  CASE io = "saved" ->
         [raised |-> FALSE,
          disk |-> [d EXCEPT ![ModelFile(family)] = model, ![ScalerFile(family)] = scaler,
                             ![MetricsFile(family)] = metrics]]
    [] io = "failed_makedirs" ->
         [raised |-> TRUE, disk |-> d]
    [] io = "failed_model" ->
         [raised |-> TRUE, disk |-> [d EXCEPT ![ModelFile(family)] = CorruptBlob]]
    [] io = "failed_scaler" ->
         [raised |-> TRUE,
          disk |-> [d EXCEPT ![ModelFile(family)] = model,
                             ![ScalerFile(family)] = CorruptBlob]]
    [] io = "failed_metrics" ->
         [raised |-> TRUE,
          disk |-> [d EXCEPT ![ModelFile(family)] = model, ![ScalerFile(family)] = scaler,
                             ![MetricsFile(family)] = CorruptBlob]]

\* variant: a failure to save is logged and the fitted pair is returned
train_model_swallowing(d, family, training_data, save_model, io) ==
  LET synthetic == UsesSyntheticData(family, training_data)
      model == FittedModel(family, synthetic)
      scaler == FittedScaler(family, synthetic)
      saved == IF save_model
               THEN _save_model(d, family, model, scaler, EvaluatedMetrics(family), io)
               ELSE [raised |-> FALSE, disk |-> d]
  IN  IF synthetic /\ generate_synthetic_data_raises(family)
      THEN [outcome |-> Raise("generate_synthetic_data"), disk |-> d]
      ELSE [outcome |-> Return([model |-> model, scaler |-> scaler]), disk |-> saved.disk]

\* train_model(training_data, save_model=...): the exception or the fitted
\* (model, scaler), and the model directory after the call
train_model(d, family, training_data, save_model, io) ==
  LET synthetic == UsesSyntheticData(family, training_data)
      model == FittedModel(family, synthetic)
      scaler == FittedScaler(family, synthetic)
      saved == IF save_model
               THEN _save_model(d, family, model, scaler, EvaluatedMetrics(family), io)
               ELSE [raised |-> FALSE, disk |-> d]
  IN  IF synthetic /\ generate_synthetic_data_raises(family)
      THEN [outcome |-> Raise("generate_synthetic_data"), disk |-> d]
      ELSE IF saved.raised
      THEN [outcome |-> Raise("save_model"), disk |-> saved.disk]
      ELSE [outcome |-> Return([model |-> model, scaler |-> scaler]), disk |-> saved.disk]

\* variant: load_model() ignores the persisted files and trains anew
load_model_always_training(d, family, io1, io2) ==
  LET first == train_model(d, family, "none", TRUE, io1)
  IN  [found |-> "absent",
       io_failed |-> first.outcome.raised /\ first.outcome.value = "save_model",
       outcome |-> first.outcome,
       disk |-> first.disk]

\* load_model(): io1 is what happens to the saving of the training run
\* inside the try block, io2 to that of the run in the except block;
\* io_failed tells whether a saving raised during the call
load_model(d, family, io1, io2) ==
  LET absent == ~ path_exists(d[ModelFile(family)]) \/ ~ path_exists(d[ScalerFile(family)])
      first == train_model(d, family, "none", TRUE, io1)
      load_raises == \/ joblib_load_raises(d[ModelFile(family)])
                     \/ joblib_load_raises(d[ScalerFile(family)])
      try_raised == IF absent THEN first.outcome.raised ELSE load_raises
      after_try == IF absent THEN first.disk ELSE d
      second == train_model(after_try, family, "none", TRUE, io2)
  IN  [found |-> IF absent THEN "absent" ELSE IF load_raises THEN "unreadable" ELSE "loaded",
       io_failed |-> \/ absent /\ first.outcome.raised /\ first.outcome.value = "save_model"
                     \/ try_raised /\ second.outcome.raised
                          /\ second.outcome.value = "save_model",
       outcome |-> IF try_raised THEN second.outcome
                   ELSE IF absent THEN first.outcome
                   ELSE Return([model |-> d[ModelFile(family)],
                                scaler |-> d[ScalerFile(family)]]),
       disk |-> IF try_raised THEN second.disk ELSE after_try]

\* a call of a family's load_model()
LoadModel ==
  \E family \in Families, io1 \in SaveOutcomes, io2 \in SaveOutcomes :
    LET call == load_model(disk, family, io1, io2)
    IN  /\ loaded' = [called |-> TRUE, op |-> "load_model", family |-> family,
                      found |-> call.found, io_failed |-> call.io_failed,
                      outcome |-> call.outcome,
                      after_train |-> /\ loaded.called
                                      /\ loaded.op = "train_model"
                                      /\ loaded.family = family
                                      /\ loaded.save_model
                                      /\ ~ loaded.outcome.raised]
        /\ disk' = call.disk
        /\ UNCHANGED <<scan, risk, prev, feat, anomaly, threat>>

\* a call of a family's train_model(training_data, save_model=...)
TrainModel ==
  \E family \in Families, training_data \in TrainingData, save_model \in BOOLEAN,
     io \in SaveOutcomes :
    LET call == train_model(disk, family, training_data, save_model, io)
    IN  /\ loaded' = [called |-> TRUE, op |-> "train_model", family |-> family,
                      found |-> "untested",
                      io_failed |-> /\ save_model
                                    /\ io # "saved"
                                    /\ ~ (/\ UsesSyntheticData(family, training_data)
                                           /\ generate_synthetic_data_raises(family)),
                      outcome |-> call.outcome, save_model |-> save_model,
                      training_data |-> training_data]
        /\ disk' = call.disk
        /\ UNCHANGED <<scan, risk, prev, feat, anomaly, threat>>

\* the model directory with the three artifacts of every family, as training
\* runs on real data leave it
CompleteDisk ==
  [f \in DOMAIN NoDisk |->
     CASE f \in {ModelFile(family) : family \in Families} ->
            FittedModel(CHOOSE family \in Families : ModelFile(family) = f, FALSE)
       [] f \in {ScalerFile(family) : family \in Families} ->
            FittedScaler(CHOOSE family \in Families : ScalerFile(family) = f, FALSE)
       [] OTHER ->
            EvaluatedMetrics(CHOOSE family \in Families : MetricsFile(family) = f)]

\* the same directory after its model and scaler files were damaged or were
\* written by another library version
UnreadableDisk ==
  [f \in DOMAIN NoDisk |->
     IF f \in {MetricsFile(family) : family \in Families} THEN CompleteDisk[f]
     ELSE CorruptBlob]

\* directories in which a family's scaler file is missing or unreadable
LoadDisks ==
  { NoDisk, CompleteDisk, UnreadableDisk,
    [f \in DOMAIN NoDisk |->
       IF f \in {ScalerFile(family) : family \in Families} THEN AbsentBlob
       ELSE CompleteDisk[f]],
    [f \in DOMAIN NoDisk |->
       IF f \in {ScalerFile(family) : family \in Families} THEN CorruptBlob
       ELSE CompleteDisk[f]] }

InitLoad ==
  /\ scan = sample_scan_data
  /\ disk \in LoadDisks
  /\ risk = NoCall
  /\ prev = NoCall
  /\ feat = NoFeatures
  /\ anomaly = NoCall
  /\ threat = NoCall
  /\ loaded = NoCall
  /\ ops = 0
  /\ procs = <<>>

NextLoad == LoadModel /\ UNCHANGED <<ops, procs>>

SpecLoad == InitLoad /\ [][NextLoad]_vars

\* scans that every scoring function accepts
LifecycleScans ==
  { sample_scan_data,
    ("summary" :> anomalous_summary) @@ ("findings" :> high_findings) }

InitLifecycle ==
  /\ scan \in LifecycleScans
  /\ disk \in {NoDisk, CompleteDisk, UnreadableDisk}
  /\ risk = NoCall
  /\ prev = NoCall
  /\ feat = NoFeatures
  /\ anomaly = NoCall
  /\ threat = NoCall
  /\ loaded = NoCall
  /\ ops = 0
  /\ procs = <<>>

\* one more operation on the model directory, up to MaxOps of them
Tick == ops < MaxOps /\ ops' = ops + 1 /\ UNCHANGED procs

NextLifecycle ==
  \/ Tick /\ CalculateRiskScore
  \/ Tick /\ ClassifyThreats
  \/ Tick /\ DetectAnomalies
  \/ Tick /\ TrainModel
  \/ Tick /\ LoadModel

SpecLifecycle == InitLifecycle /\ [][NextLifecycle]_vars

(***************************************************************************)
(* Requests that run at the same time on one model directory: each check   *)
(* of a path, each fit and each write or load of one file is a step, and   *)
(* nothing in the sources orders the steps of different requests (there is *)
(* no lock, no temporary file and no rename).  Storage works here.         *)
(***************************************************************************)
Requests == 1..MaxRequests

\* what a request of a family can be: a scoring request ("score" stands for
\* the model path of calculate_risk_score and classify_threats), a
\* load_model() or a train_model(training_data, save_model=True)
RequestKinds(family) ==
  { [op |-> IF family = "anomaly" THEN "detect_anomalies" ELSE "score",
     training_data |-> "none"],
    [op |-> "load_model", training_data |-> "none"],
    [op |-> "train_model", training_data |-> "none"],
    [op |-> "train_model", training_data |-> "real"] }

\* a request holds its operation, its position pc in it, whether it found
\* the model file absent (cold), whether it trained, whether it raised, and
\* the model and scaler it returned or loaded.
\* what run p of a family fits: the artifacts depend on the data of the run
FittedBy(p, blob) == ("run" :> p) @@ blob

\* variant: a request that finds the model absent while another request is
\* training waits for that request's files and loads them
Exists_exclusive(p) ==
  LET r == procs[p]
      present == /\ path_exists(disk[ModelFile(r.family)])
                 /\ (r.op = "detect_anomalies" \/ path_exists(disk[ScalerFile(r.family)]))
      busy == \E q \in Requests \ {p} :
                procs[q].pc \in {"fit", "write_model", "write_scaler", "write_metrics"}
  IN  /\ r.pc = "start"
      /\ procs' = [procs EXCEPT ![p].pc = IF present THEN "read_model"
                                          ELSE IF r.op = "score" \/ busy THEN "done"
                                          ELSE "fit",
                                ![p].cold = ~ path_exists(disk[ModelFile(r.family)])]
      /\ UNCHANGED <<scan, disk, risk, prev, feat, anomaly, threat, loaded, ops>>

\* the os.path.exists test that opens detect_anomalies, load_model,
\* calculate_risk_score and classify_threats
Exists(p) ==
  LET r == procs[p]
      present == /\ path_exists(disk[ModelFile(r.family)])
                 /\ (r.op = "detect_anomalies" \/ path_exists(disk[ScalerFile(r.family)]))
  IN  /\ r.pc = "start"
      /\ procs' = [procs EXCEPT ![p].pc = IF present THEN "read_model"
                                          ELSE IF r.op = "score" THEN "done"
                                          ELSE "fit",
                                ![p].cold = ~ path_exists(disk[ModelFile(r.family)])]
      /\ UNCHANGED <<scan, disk, risk, prev, feat, anomaly, threat, loaded, ops>>

\* the data is generated or prepared and the estimator is fitted; the
\* exception of the threat family's synthetic data ends load_model as well,
\* whose handler trains the same way
Fit(p) ==
  LET r == procs[p]
      raises == /\ r.op # "detect_anomalies"
                /\ UsesSyntheticData(r.family, r.training_data)
                /\ generate_synthetic_data_raises(r.family)
  IN  /\ r.pc = "fit"
      /\ procs' = [procs EXCEPT ![p].pc = IF raises THEN "done" ELSE "write_model",
                                ![p].raised = raises,
                                ![p].trained = TRUE]
      /\ UNCHANGED <<scan, disk, risk, prev, feat, anomaly, threat, loaded, ops>>

\* one joblib.dump or json.dump: _train_model of detect_anomalies writes the
\* model file only, _save_model writes model, scaler and metrics in turn
Write(p) ==
  LET r == procs[p]
      synthetic == UsesSyntheticData(r.family, r.training_data)
  IN  /\ r.pc \in {"write_model", "write_scaler", "write_metrics"}
      /\ \E fitted \in BootstrapBlobs :
           disk' = [disk EXCEPT
             ![CASE r.pc = "write_model" -> ModelFile(r.family)
                 [] r.pc = "write_scaler" -> ScalerFile(r.family)
                 [] r.pc = "write_metrics" -> MetricsFile(r.family)] =
               FittedBy(p, CASE r.pc = "write_model" ->
                                  IF r.op = "detect_anomalies" THEN fitted
                                  ELSE FittedModel(r.family, synthetic)
                             [] r.pc = "write_scaler" -> FittedScaler(r.family, synthetic)
                             [] r.pc = "write_metrics" -> EvaluatedMetrics(r.family))]
      /\ procs' = [procs EXCEPT
           ![p].pc = CASE r.pc = "write_model" ->
                            IF r.op = "detect_anomalies" THEN "read_model" ELSE "write_scaler"
                       [] r.pc = "write_scaler" -> "write_metrics"
                       [] r.pc = "write_metrics" -> "done",
           ![p].model = IF r.pc = "write_model" /\ r.op # "detect_anomalies"
                        THEN FittedBy(p, FittedModel(r.family, synthetic)) ELSE @,
           ![p].scaler = IF r.pc = "write_scaler"
                         THEN FittedBy(p, FittedScaler(r.family, synthetic)) ELSE @]
      /\ UNCHANGED <<scan, risk, prev, feat, anomaly, threat, loaded, ops>>

\* one joblib.load: the model file, then (but for detect_anomalies) the
\* scaler file; a load that raises sends load_model to the training of its
\* handler and ends a scoring request with its fallback
Read(p) ==
  LET r == procs[p]
      blob == IF r.pc = "read_model" THEN disk[ModelFile(r.family)]
              ELSE disk[ScalerFile(r.family)]
  IN  /\ r.pc \in {"read_model", "read_scaler"}
      /\ procs' =
           IF joblib_load_raises(blob)
           THEN [procs EXCEPT ![p].pc = IF r.op = "load_model" THEN "fit" ELSE "done",
                              ![p].model = AbsentBlob,
                              ![p].scaler = AbsentBlob]
           ELSE IF r.pc = "read_model"
           THEN [procs EXCEPT ![p].pc = IF r.op = "detect_anomalies" THEN "done"
                                        ELSE "read_scaler",
                              ![p].model = blob]
           ELSE [procs EXCEPT ![p].pc = "done", ![p].scaler = blob]
      /\ UNCHANGED <<scan, disk, risk, prev, feat, anomaly, threat, loaded, ops>>

\* the requests of one family start together on an empty directory, on one
\* that an earlier run (run 0) filled, or on one with unreadable files
InitRace ==
  /\ scan = sample_scan_data
  /\ disk \in {NoDisk, UnreadableDisk, [f \in DOMAIN NoDisk |-> FittedBy(0, CompleteDisk[f])]}
  /\ risk = NoCall
  /\ prev = NoCall
  /\ feat = NoFeatures
  /\ anomaly = NoCall
  /\ threat = NoCall
  /\ loaded = NoCall
  /\ ops = 0
  /\ \E family \in Families :
       procs \in [Requests ->
                   { [op |-> k.op, family |-> family, training_data |-> k.training_data,
                      pc |-> IF k.op = "train_model" THEN "fit" ELSE "start",
                      cold |-> FALSE, trained |-> FALSE, raised |-> FALSE,
                      model |-> AbsentBlob, scaler |-> AbsentBlob] :
                     k \in RequestKinds(family) }]

NextRace ==
  \E p \in Requests :
    \/ Exists(p)
    \/ Fit(p)
    \/ Write(p)
    \/ Read(p)

SpecRace == InitRace /\ [][NextRace]_vars

(***************************************************************************)
(* Properties of calculate_risk_score (SpecRisk)                           *)
(***************************************************************************)
\* C1: every overall_score returned by calculate_risk_score lies in the
\* closed range [0, 100], on the rule-based path and on the model path.
ScoreWithinRange ==
  risk.called =>
    /\ RLe(RInt(0), risk.outcome.value.overall_score)
    /\ RLe(risk.outcome.value.overall_score, RInt(100))

\* C2: the returned risk_level and risk_color are the entry of the bucket
\* table [0,20) Low, [20,40) Moderate, [40,60) Medium, [60,80) High,
\* [80,100] Critical that holds the returned overall_score.
LevelOfReturnedScore ==
  LET score == risk.outcome.value.overall_score
  IN  risk.called /\ RLe(RInt(0), score) /\ RLe(score, RInt(100)) =>
        \E i \in 1..5 :
          /\ RLe(RInt(RISK_LEVELS[i].lower), score)
          /\ RLt(score, RInt(RISK_LEVELS[i].upper))
          /\ risk.outcome.value.risk_level = RISK_LEVELS[i].level
          /\ risk.outcome.value.risk_color = RISK_LEVELS[i].color

\* C3: the six category weights sum to exactly 1, and on the rule-based
\* path the returned overall_score is the sum over the six categories of
\* returned score times returned weight, rounded to one decimal: a multiple
\* of 0.1 at most 0.05 away from that sum.
WeightedSumOfCategories ==
  /\ RSum([i \in 1..6 |-> RISK_CATEGORIES[RiskCategoryNames[i]]]) = RInt(1)
  /\ risk.called /\ risk.outcome.value.scoring_method = "rule_based" =>
       LET cs == risk.outcome.value.category_scores
           total == RSum([i \in 1..6 |-> RMul(cs[RiskCategoryNames[i]].score,
                                              cs[RiskCategoryNames[i]].weight)])
           overall == risk.outcome.value.overall_score
       IN  /\ RMul(overall, RInt(10)).d = 1
           /\ RLe(RSub(total, Rat(1, 20)), overall)
           /\ RLe(overall, RAdd(total, Rat(1, 20)))

\* the sample fixture scored by rules: 35*0.30 + 95*0.20 + 8*0.15 + 0*0.15
\* + 16*0.10 + 5*0.10 = 32.8
WeightedSumWitness ==
  /\ risk.called
  /\ scan = sample_scan_data
  /\ risk.outcome.value.scoring_method = "rule_based"
  /\ risk.outcome.value.overall_score = Rat(328, 10)

ModelPathReturnsClampedPrediction ==
  risk.called /\ risk.path = "model" /\ risk.exc = "none" =>
    LET prediction == model_predict(disk.risk_model,
                        scaler_transform(disk.risk_scaler, extract_risk_features(scan)))
        rules == _rule_based_scoring(scan).category_scores
    IN  /\ risk.outcome.value.scoring_method = "machine_learning"
        /\ risk.outcome.value.overall_score = RMax(RInt(0), RMin(RInt(100), prediction))
        /\ \A c \in DOMAIN RISK_CATEGORIES :
             /\ risk.outcome.value.category_scores[c].score = rules[c].score
             /\ risk.outcome.value.category_scores[c].weight = rules[c].weight

\* C5: when both files exist and inference succeeds the result is marked
\* "machine_learning", its overall_score is the prediction clamped to
\* [0, 100] and then rounded to one decimal, and its six category scores and
\* weights are those of the rule-based scorer on the same input.
ModelPathReturnsRoundedClampedPrediction ==
  risk.called /\ risk.path = "model" /\ risk.exc = "none" =>
    LET prediction == model_predict(disk.risk_model,
                        scaler_transform(disk.risk_scaler, extract_risk_features(scan)))
        rules == _rule_based_scoring(scan).category_scores
    IN  /\ risk.outcome.value.scoring_method = "machine_learning"
        /\ risk.outcome.value.overall_score =
             Round1(RMax(RInt(0), RMin(RInt(100), prediction)))
        /\ \A c \in DOMAIN RISK_CATEGORIES :
             /\ risk.outcome.value.category_scores[c].score = rules[c].score
             /\ risk.outcome.value.category_scores[c].weight = rules[c].weight

\* a successful inference whose prediction lies above 100
ModelPathWitness ==
  /\ risk.called
  /\ risk.path = "model"
  /\ risk.exc = "none"
  /\ risk.outcome.value.scoring_method = "machine_learning"
  /\ RLt(RInt(100), model_predict(disk.risk_model,
                      scaler_transform(disk.risk_scaler, extract_risk_features(scan))))
  /\ risk.outcome.value.overall_score = RInt(100)

SeparatesScansByTraits ==
  LET findings == _get(scan, "findings", <<>>)
      ssl == _get(scan, "ssl", PyDict(EmptyDict)).v
      headers == _get(scan, "headers", PyDict(EmptyDict)).v
      server == _get(scan, "server_info", EmptyDict)
      reputation == _get(scan, "domain_reputation", EmptyDict)
      severe == {i \in 1..Len(findings) :
                   _get(findings[i], "severity", "Low") \in {"High", "Critical"}}
      high_risk ==
        /\ Cardinality(severe) >= 3
        /\ "ssl" \in DOMAIN scan
        /\ ~ _get(ssl, "is_valid", FALSE)
        /\ Len(_get(ssl, "vulnerabilities", <<>>)) = 2
        /\ \A i \in 1..Len(required_headers) : ~ _get(headers, required_headers[i], FALSE)
        /\ _get(server, "is_outdated", FALSE)
        /\ _get(reputation, "is_blacklisted", FALSE)
      low_risk ==
        /\ Len(findings) = 0
        /\ _get(ssl, "is_valid", FALSE)
        /\ \A i \in 1..Len(required_headers) : _get(headers, required_headers[i], FALSE)
        /\ "domain_reputation" \notin DOMAIN scan
      overall == risk.outcome.value.overall_score
  IN  risk.called /\ risk.outcome.value.scoring_method = "rule_based" =>
        /\ high_risk => /\ RLe(RInt(60), overall)
                        /\ risk.outcome.value.risk_level \in {"High", "Critical"}
        /\ low_risk => RLe(overall, RInt(40))

\* C9: rule-based scoring separates the two fixtures of the test:
\* high_risk_scan_data scores at least 60 with level High or Critical,
\* sample_scan_data scores at most 40 with level Low, Moderate or Medium,
\* and high_risk_scan_data scores strictly higher than sample_scan_data.
SeparatesFixtures ==
  risk.called /\ risk.outcome.value.scoring_method = "rule_based" =>
    /\ scan = high_risk_scan_data =>
         /\ RLe(RInt(60), risk.outcome.value.overall_score)
         /\ risk.outcome.value.risk_level \in {"High", "Critical"}
         /\ RLt(_rule_based_scoring(sample_scan_data).overall_score,
                risk.outcome.value.overall_score)
    /\ scan = sample_scan_data =>
         /\ RLe(risk.outcome.value.overall_score, RInt(40))
         /\ risk.outcome.value.risk_level \in {"Low", "Moderate", "Medium"}

\* the high-risk fixture scored by rules
SeparatesFixturesWitness ==
  /\ risk.called
  /\ scan = high_risk_scan_data
  /\ risk.outcome.value.scoring_method = "rule_based"
  /\ risk.outcome.value.risk_level = "High"

(***************************************************************************)
(* Properties of the feature extractors (SpecFeat)                         *)
(***************************************************************************)
\* C6: the feature vector has a constant length per consumer, whatever
\* groups and fields are present and however many findings there are: 31
\* for the risk extractor, 22 for the threat extractor, 12 for the anomaly
\* extractor.
FeatureVectorLengths ==
  feat.domain # "none" /\ ~ feat.raised =>
    Len(feat.vec) = CASE feat.domain = "risk" -> 31
                      [] feat.domain = "threat" -> 22
                      [] feat.domain = "anomaly" -> 12

\* C7: on every scan whose present headers and ssl groups are records of
\* flags and values and whose findings are a list of records, each of the
\* three extractors returns a vector and does not raise.
ExtractorsTotalOnDataModel ==
  /\ feat.domain # "none"
  /\ \A k \in {"headers", "ssl"} : k \in DOMAIN scan => scan[k].t = "dict"
  => ~ feat.raised

(***************************************************************************)
(* Properties of detect_anomalies (SpecAnomaly)                            *)
(***************************************************************************)
\* C10: detect_anomalies never raises, and when on-demand training, model
\* loading, feature extraction or prediction raises inside it the call
\* returns False.
DetectAnomaliesFailsSafe ==
  anomaly.called =>
    /\ ~ anomaly.outcome.raised
    /\ anomaly.exc # "none" => anomaly.outcome.value = FALSE

\* the model file was absent and on-demand training raised
DetectAnomaliesWitness ==
  /\ anomaly.called
  /\ anomaly.trained
  /\ anomaly.exc = "train_model"
  /\ anomaly.outcome.value = FALSE

(***************************************************************************)
(* Properties of detect_anomalies on a loaded model (SpecAnomaly)          *)
(***************************************************************************)
\* C11: detect_anomalies returns True exactly when the loaded model labels
\* the scan's feature vector as an outlier: a model that separates vectors
\* by a feature value flags the scans whose feature lies beyond its
\* threshold (the constructed outlier) and no scan whose feature does not.
FlagsOutlierByScanFeatures ==
  (anomaly.called /\ anomaly.exc = "none") =>
    (anomaly.outcome.value =
       (iforest_predict(disk.anomaly_model, extract_anomaly_features(scan)) = -1))

(***************************************************************************)
(* Properties of classify_threats (SpecThreat)                             *)
(***************************************************************************)
NamedCategories == {THREAT_CATEGORIES[i] : i \in 1..Len(THREAT_CATEGORIES)} \ {"none"}

OnModelPath == threat.called /\ threat.path = "model" /\ threat.exc = "none"

OnFallbackPath == threat.called /\ (threat.path = "no_model" \/ threat.exc # "none")

\* C12: in every result of classify_threats, on the model path and on the
\* fallback path, threat_detected is true only if the returned
\* threat_confidence is at least 0.6; on the model path it is true whenever
\* some category other than "none" has probability at least 0.6.
DetectionThresholdIsHard ==
  threat.called =>
    LET result == threat.outcome.value
    IN  /\ result.threat_detected => RLe(Rat(6, 10), result.threat_confidence)
        /\ (OnModelPath /\ \E c \in NamedCategories :
                              RLe(Rat(6, 10), result.threat_details[c].probability))
             => result.threat_detected

\* C13 as claimed: on the model path primary_threat_type is a category other
\* than "none" whose probability is the highest among those categories, and
\* threat_confidence is that probability, for every probability vector.
PrimaryIsHighestNamedCategory ==
  OnModelPath =>
    LET result == threat.outcome.value
    IN  /\ result.primary_threat_type \in NamedCategories
        /\ \A c \in NamedCategories :
             RLe(result.threat_details[c].probability, result.threat_confidence)
        /\ result.threat_confidence
             = result.threat_details[result.primary_threat_type].probability

\* C13 as amended: the same, except that when every category other than
\* "none" has probability 0 the primary_threat_type is "none" and the
\* threat_confidence is 0.
PrimaryIsHighestNamedCategoryOrNone ==
  OnModelPath =>
    LET result == threat.outcome.value
    IN  IF \E c \in NamedCategories : RLt(RInt(0), result.threat_details[c].probability)
        THEN /\ result.primary_threat_type \in NamedCategories
             /\ \A c \in NamedCategories :
                  RLe(result.threat_details[c].probability, result.threat_confidence)
             /\ result.threat_confidence
                  = result.threat_details[result.primary_threat_type].probability
        ELSE /\ result.primary_threat_type = "none"
             /\ result.threat_confidence = RInt(0)

\* the forest gave two categories the same, highest probability
PrimaryWitness ==
  /\ OnModelPath
  /\ threat.outcome.value.primary_threat_type = "phishing"
  /\ threat.outcome.value.threat_details["xss"].probability
       = threat.outcome.value.threat_confidence

\* C14: on the fallback path a scan with Critical findings gets
\* threat_detected = true, threat_confidence = 0.8 and the threat type that
\* the keywords in the titles of its Critical findings name, in the
\* precedence sql, xss, csrf, redirect, injection, serialize/deserialize,
\* else malware; three Critical findings titled with "sql" give sql_injection.
FallbackMapsTitleKeywords ==
  LET findings == _get(scan, "findings", <<>>)
      critical == SelectCritical(findings, 1)
      titles == [i \in 1..Len(critical) |-> lower(_get(critical[i], "title", ""))]
  IN  (/\ OnFallbackPath
       /\ Len(critical) > 0
       /\ \A i \in 1..Len(findings) : "title" \in DOMAIN findings[i])
      => /\ threat.outcome.value.threat_detected
         /\ threat.outcome.value.threat_confidence = Rat(8, 10)
         /\ threat.outcome.value.primary_threat_type = ThreatTypeOfNames(titles)

\* C15 as claimed: classify_threats on a scan with zero findings and no
\* suspicious scripts returns threat_detected = false, primary_threat_type =
\* "none", threat_confidence = 0 and no recommendations, and never raises.
QuietScan ==
  /\ Len(_get(scan, "findings", <<>>)) = 0
  /\ _get(_get(scan, "content_analysis", EmptyDict), "suspicious_script_count", 0) = 0

QuietScanHasNoThreat ==
  (threat.called /\ QuietScan) =>
    /\ ~ threat.outcome.raised
    /\ ~ threat.outcome.value.threat_detected
    /\ threat.outcome.value.primary_threat_type = "none"
    /\ threat.outcome.value.threat_confidence = RInt(0)
    /\ "recommendations" \notin DOMAIN threat.outcome.value

\* C15 as amended: the same when the answer comes from fallback detection,
\* that is when a model file is missing or the model path raised.
QuietScanHasNoThreatOnFallback ==
  (OnFallbackPath /\ QuietScan) =>
    /\ ~ threat.outcome.raised
    /\ ~ threat.outcome.value.threat_detected
    /\ threat.outcome.value.primary_threat_type = "none"
    /\ threat.outcome.value.threat_confidence = RInt(0)
    /\ "recommendations" \notin DOMAIN threat.outcome.value

\* the model path raised on a scan with no findings and no suspicious script
QuietScanWitness ==
  /\ threat.called
  /\ threat.path = "model"
  /\ threat.exc # "none"
  /\ QuietScan
  /\ ~ threat.outcome.raised
  /\ threat.outcome.value.primary_threat_type = "none"

(***************************************************************************)
(* Properties of the model life cycle (SpecLifecycle, SpecLoad)            *)
(***************************************************************************)
\* C16 as claimed: a scoring request (calculate_risk_score, classify_threats,
\* detect_anomalies) that finds no model file of its family trains the
\* family's model within the request, so that the model file exists after it
\* unless the training raised.
ScoringTrainsAbsentFamily ==
  [][/\ (risk' # risk /\ ~ (path_exists(disk.risk_model) /\ path_exists(disk.risk_scaler)))
        => path_exists(disk'.risk_model)
     /\ (threat' # threat
          /\ ~ (path_exists(disk.threat_model) /\ path_exists(disk.threat_scaler)))
        => path_exists(disk'.threat_model)
     /\ (anomaly' # anomaly /\ ~ path_exists(disk.anomaly_model))
        => (anomaly'.trained
            /\ (anomaly'.exc # "train_model" => path_exists(disk'.anomaly_model)))]_vars

\* C16 as amended: only detect_anomalies trains on demand: a request that
\* finds no anomaly model file trains one within the request, while
\* calculate_risk_score and classify_threats never write to the model
\* directory and leave an absent family absent.
OnlyAnomalyTrainsOnDemand ==
  [][/\ (risk' # risk \/ threat' # threat) => disk' = disk
     /\ (anomaly' # anomaly /\ ~ path_exists(disk.anomaly_model))
        => (anomaly'.trained
            /\ (anomaly'.exc # "train_model" => path_exists(disk'.anomaly_model)))]_vars

\* on an empty model directory the risk scorer answered from its rules and
\* the anomaly detector trained its model
OnDemandWitness ==
  /\ risk.called
  /\ risk.path = "no_model"
  /\ ~ path_exists(disk.risk_model)
  /\ anomaly.called
  /\ anomaly.trained
  /\ anomaly.exc = "none"
  /\ path_exists(disk.anomaly_model)

\* C17: load_model() of a family, called while the model or scaler file is
\* absent and with the storage working, trains a model, persists model,
\* scaler and metrics and returns the (model, scaler) pair: afterwards the
\* three artifacts exist and hold what was returned.
LoadTrainsWhenAbsent ==
  (loaded.called /\ loaded.op = "load_model" /\ loaded.found = "absent"
     /\ ~ loaded.io_failed)
  => /\ ~ loaded.outcome.raised
     /\ loaded.outcome.value.model = disk[ModelFile(loaded.family)]
     /\ loaded.outcome.value.scaler = disk[ScalerFile(loaded.family)]
     /\ ~ joblib_load_raises(disk[ModelFile(loaded.family)])
     /\ ~ joblib_load_raises(disk[ScalerFile(loaded.family)])
     /\ disk[MetricsFile(loaded.family)] = EvaluatedMetrics(loaded.family)

\* C18: load_model() of a family, called while the model and scaler files
\* exist but cannot be deserialized and with the storage working, does not
\* fail the caller: it retrains, overwrites the persisted artifacts and
\* returns the newly trained (model, scaler) pair.
LoadRetrainsWhenUnreadable ==
  (loaded.called /\ loaded.op = "load_model" /\ loaded.found = "unreadable"
     /\ ~ loaded.io_failed)
  => /\ ~ loaded.outcome.raised
     /\ loaded.outcome.value.model = FittedModel(loaded.family, TRUE)
     /\ loaded.outcome.value.scaler = FittedScaler(loaded.family, TRUE)
     /\ disk[ModelFile(loaded.family)] = loaded.outcome.value.model
     /\ disk[ScalerFile(loaded.family)] = loaded.outcome.value.scaler
     /\ disk[MetricsFile(loaded.family)] = EvaluatedMetrics(loaded.family)

\* C19: the model blob, the scaler blob and the metrics document of a
\* family are written as a set: in every state either all three exist or
\* none of them does, whether the operations completed or failed part-way.
ArtifactsSavedAsSet ==
  \A family \in Families :
    \/ /\ path_exists(disk[ModelFile(family)])
       /\ path_exists(disk[ScalerFile(family)])
       /\ path_exists(disk[MetricsFile(family)])
    \/ /\ ~ path_exists(disk[ModelFile(family)])
       /\ ~ path_exists(disk[ScalerFile(family)])
       /\ ~ path_exists(disk[MetricsFile(family)])

\* C20: no operation (scoring, classification, detection, training, loading)
\* removes a persisted file: a file of the model directory that exists
\* before a step exists after it.
FileNeverRemoved ==
  [][\A f \in DOMAIN NoDisk : path_exists(disk[f]) => path_exists(disk'[f])]_vars

\* a load found unreadable files, its retraining failed while saving, and
\* the family's model file is still there
FileKeptWitness ==
  /\ loaded.called
  /\ loaded.op = "load_model"
  /\ loaded.found = "unreadable"
  /\ loaded.io_failed
  /\ loaded.outcome.raised
  /\ path_exists(disk[ModelFile(loaded.family)])

(***************************************************************************)
(* Properties of persistence and of training failures                      *)
(***************************************************************************)
\* C21: persistence round trip of the risk family: a load_model() that
\* follows a completed train_model(save_model=True) returns the model and
\* the scaler which that training run returned, so that it predicts the
\* same value on every feature vector.  (Every step of the life cycle
\* counts in ops, so the steps that leave ops unchanged are the stuttering
\* steps.)
RiskRoundTrip ==
  [][(/\ loaded.called
      /\ loaded.op = "train_model"
      /\ loaded.family = "risk"
      /\ loaded.save_model
      /\ ~ loaded.outcome.raised
      /\ loaded'.op = "load_model"
      /\ loaded'.family = "risk")
     => IF loaded'.outcome.raised THEN FALSE
        ELSE /\ loaded'.outcome.value = loaded.outcome.value
             /\ \A s \in RiskScans :
                  model_predict(loaded'.outcome.value.model, extract_risk_features(s))
                    = model_predict(loaded.outcome.value.model, extract_risk_features(s))]_ops

\* a load_model() of the risk family returned the model of the training run
\* on synthetic data that was saved just before it
RiskRoundTripWitness ==
  /\ loaded.called
  /\ loaded.op = "load_model"
  /\ loaded.family = "risk"
  /\ loaded.after_train
  /\ loaded.found = "loaded"
  /\ ~ loaded.outcome.raised
  /\ loaded.outcome.value.model = FittedModel("risk", TRUE)

\* C22 as claimed: a training failure is propagated as an error to the
\* caller of every operation that triggers training: a train_model or
\* load_model call during which a saving failed raises, and so does a
\* detect_anomalies request whose on-demand training failed.
TrainingFailurePropagates ==
  /\ (loaded.called /\ loaded.io_failed) => loaded.outcome.raised
  /\ (anomaly.called /\ anomaly.exc = "train_model") => anomaly.outcome.raised

\* C22 as amended: train_model propagates a training failure; load_model
\* propagates it unless the failure was in the training of its try block
\* and the training it repeats in its handler succeeded, in which case it
\* returns the pair that this second run trained and persisted;
\* detect_anomalies converts the failure of its on-demand training into the
\* normal result False.
TrainingFailurePropagatesToTrainers ==
  /\ (loaded.called /\ loaded.op = "train_model" /\ loaded.io_failed)
       => loaded.outcome.raised
  /\ (loaded.called /\ loaded.op = "load_model" /\ loaded.io_failed)
       => IF loaded.outcome.raised THEN TRUE
          ELSE /\ loaded.found = "absent"
               /\ loaded.outcome.value.model = FittedModel(loaded.family, TRUE)
               /\ disk[ModelFile(loaded.family)] = loaded.outcome.value.model
               /\ disk[ScalerFile(loaded.family)] = loaded.outcome.value.scaler
  /\ (anomaly.called /\ anomaly.exc = "train_model")
       => anomaly.outcome = Return(FALSE)

\* a training run failed while saving and raised, and the on-demand training
\* of a detect_anomalies request failed
TrainingFailureWitness ==
  /\ loaded.called
  /\ loaded.op = "train_model"
  /\ loaded.io_failed
  /\ loaded.outcome.raised
  /\ anomaly.called
  /\ anomaly.trained
  /\ anomaly.exc = "train_model"

(***************************************************************************)
(* Properties of concurrent requests (SpecRace)                            *)
(***************************************************************************)
\* C23: cold-start race: nothing makes a request wait for another one: a
\* detect_anomalies or load_model request of the anomaly family that
\* observes the model as absent goes on to train, also while another
\* request is training or writing the same files.
ColdStartIsUnguarded ==
  [][\A p \in Requests :
       (/\ procs[p].family = "anomaly"
        /\ procs[p].pc = "start"
        /\ procs'[p].pc # "start"
        /\ ~ path_exists(disk.anomaly_model))
       => procs'[p].pc = "fit"]_vars

\* a detect_anomalies and a load_model request both found the anomaly model
\* absent, both trained and both wrote the model file
ColdStartRaceWitness ==
  /\ \A p \in Requests :
       /\ procs[p].family = "anomaly"
       /\ procs[p].op \in {"detect_anomalies", "load_model"}
       /\ procs[p].cold
       /\ procs[p].trained
       /\ procs[p].pc = "done"
  /\ \E p \in Requests : procs[p].op = "detect_anomalies"
  /\ \E p \in Requests : procs[p].op = "load_model"
  /\ path_exists(disk.anomaly_model)
  /\ ~ joblib_load_raises(disk.anomaly_model)

\* C29: consistency of the persisted pair: when the train_model runs of a
\* family have all completed, the model file and the scaler file on disk
\* were written by the same run; and a scoring request never ends up with
\* a model of one run and a scaler of another.
PersistedPairFromOneRun ==
  /\ (\A p \in Requests :
        procs[p].op = "train_model" /\ procs[p].pc = "done" /\ ~ procs[p].raised)
     => disk[ModelFile(procs[1].family)].run = disk[ScalerFile(procs[1].family)].run
  /\ \A p \in Requests :
       (/\ procs[p].op = "score"
        /\ procs[p].pc = "done"
        /\ path_exists(procs[p].model)
        /\ path_exists(procs[p].scaler))
       => procs[p].model.run = procs[p].scaler.run

(***************************************************************************)
(* Properties of the rule-based category scores (SpecRule)                 *)
(***************************************************************************)
\* C24 as claimed: the vulnerability score of the rule-based result is the
\* mean over all findings of the severity weights (Critical 100, High 80,
\* Medium 50, Low 20, Info 0), 0 without findings, where a finding whose
\* severity is absent or not one of the five names weighs 0.
VulnerabilityIsMeanOfKnownWeights ==
  (risk.called /\ risk.outcome.value.scoring_method = "rule_based") =>
    LET findings == _get(scan, "findings", <<>>)
        w(f) == IF "severity" \in DOMAIN f /\ f.severity \in DOMAIN severity_weights
                THEN severity_weights[f.severity] ELSE 0
        total == RSum([i \in 1..Len(findings) |-> RInt(w(findings[i]))])
    IN  risk.outcome.value.category_scores["vulnerability"].score
          = IF Len(findings) = 0 THEN RInt(0) ELSE RMul(total, Rat(1, Len(findings)))

\* C24 as amended: the same mean, where a finding without a severity counts
\* as Low (20) and only a severity outside the five names weighs 0.
VulnerabilityIsMeanWithLowDefault ==
  (risk.called /\ risk.outcome.value.scoring_method = "rule_based") =>
    LET findings == _get(scan, "findings", <<>>)
        w(f) == IF "severity" \notin DOMAIN f THEN 20
                ELSE IF f.severity \in DOMAIN severity_weights
                THEN severity_weights[f.severity] ELSE 0
        total == RSum([i \in 1..Len(findings) |-> RInt(w(findings[i]))])
    IN  risk.outcome.value.category_scores["vulnerability"].score
          = IF Len(findings) = 0 THEN RInt(0) ELSE RMul(total, Rat(1, Len(findings)))

\* a Critical finding, a finding of unknown severity and one without a
\* severity were scored (100 + 0 + 20) / 3 = 40
VulnerabilityWitness ==
  /\ risk.called
  /\ risk.outcome.value.scoring_method = "rule_based"
  /\ _get(scan, "findings", <<>>)
       = << Finding("Critical", "f"), Finding("Unknown", "f"), "title" :> "f" >>
  /\ risk.outcome.value.category_scores["vulnerability"].score = RInt(40)

\* C25 as claimed: the compliance score of the rule-based result is
\* 100 - (0.3 * header penalty + 0.5 * ssl penalty + 0.2 * 0), the header
\* penalty being the percentage of the 6 required headers that are missing
\* and the ssl penalty 50 for an invalid certificate plus 10 per SSL
\* vulnerability, capped at 50 in total.
ComplianceWithSslPenaltyCappedInTotal ==
  (risk.called /\ risk.outcome.value.scoring_method = "rule_based") =>
    LET headers == _get(scan, "headers", PyDict(EmptyDict)).v
        ssl == _get(scan, "ssl", PyDict(EmptyDict)).v
        missing == Cardinality({i \in 1..6 : ~ _get(headers, required_headers[i], FALSE)})
        raw == (IF _get(ssl, "is_valid", FALSE) THEN 0 ELSE 50)
                 + 10 * Len(_get(ssl, "vulnerabilities", <<>>))
        ssl_penalty == IF raw < 50 THEN raw ELSE 50
    IN  risk.outcome.value.category_scores["compliance"].score
          = RSub(RInt(100), RAdd(RMul(Rat(missing * 100, 6), Rat(3, 10)),
                                 RMul(RInt(ssl_penalty), Rat(5, 10))))

\* C25 as amended: the same formula, where only the part of the ssl penalty
\* that comes from the vulnerabilities is capped at 50, so that the ssl
\* penalty of an invalid certificate with 5 or more vulnerabilities is 100.
ComplianceWithVulnerabilityPenaltyCapped ==
  (risk.called /\ risk.outcome.value.scoring_method = "rule_based") =>
    LET headers == _get(scan, "headers", PyDict(EmptyDict)).v
        ssl == _get(scan, "ssl", PyDict(EmptyDict)).v
        missing == Cardinality({i \in 1..6 : ~ _get(headers, required_headers[i], FALSE)})
        by_vulns == 10 * Len(_get(ssl, "vulnerabilities", <<>>))
        ssl_penalty == (IF _get(ssl, "is_valid", FALSE) THEN 0 ELSE 50)
                         + (IF by_vulns < 50 THEN by_vulns ELSE 50)
    IN  risk.outcome.value.category_scores["compliance"].score
          = RSub(RInt(100), RAdd(RMul(Rat(missing * 100, 6), Rat(3, 10)),
                                 RMul(RInt(ssl_penalty), Rat(5, 10))))

\* an invalid certificate with MaxVulns vulnerabilities and no required
\* header present: 100 - (0.3 * 100 + 0.5 * 100) = 20
ComplianceWitness ==
  /\ risk.called
  /\ risk.outcome.value.scoring_method = "rule_based"
  /\ ~ _get(_get(scan, "ssl", PyDict(EmptyDict)).v, "is_valid", FALSE)
  /\ Len(_get(_get(scan, "ssl", PyDict(EmptyDict)).v, "vulnerabilities", <<>>)) = MaxVulns
  /\ \A i \in 1..6 :
       ~ _get(_get(scan, "headers", PyDict(EmptyDict)).v, required_headers[i], FALSE)
  /\ risk.outcome.value.category_scores["compliance"].score = RInt(20)

\* C28: the rule-based overall_score of a scan is not lower than that of the
\* same scan before one required header went missing, the certificate
\* became invalid or one more SSL vulnerability was found.
RuleScoreIsMonotone ==
  (prev.called /\ risk.called) =>
    RLe(prev.outcome.value.overall_score, risk.outcome.value.overall_score)

(***************************************************************************)
(* Properties of the threat training (SpecLifecycle)                       *)
(***************************************************************************)
\* C26: whenever the threat train_model ran without real data and with the
\* storage working, it completed, and _generate_synthetic_data returns
\* exactly n_samples rows and labels of the 9 categories for every
\* n_samples from 9 up to the default 1000.
SyntheticDataHasAllRows ==
  (/\ loaded.called
   /\ loaded.op = "train_model"
   /\ loaded.family = "threat"
   /\ loaded.training_data = "none"
   /\ ~ loaded.io_failed)
  => /\ ~ loaded.outcome.raised
     /\ \A n_samples \in 9..1000 :
          IF _generate_synthetic_data(n_samples).raised THEN FALSE
          ELSE /\ _generate_synthetic_data(n_samples).value.rows = n_samples
               /\ _generate_synthetic_data(n_samples).value.labels = n_samples
               /\ _generate_synthetic_data(n_samples).value.classes = 9

\* the probability the forest gives, for the scan's features, to the class
\* that was labelled c when it was trained; 0 for a label it never saw
TrainedClassProbability(model, X, c) ==
  IF \E i \in 1..Len(model.classes) : model.classes[i] = c
  THEN predict_proba(model, X)[CHOOSE i \in 1..Len(model.classes) : model.classes[i] = c]
  ELSE RInt(0)

\* C27: when classify_threats answers from a model that train_model
\* persisted, the probability it reports under a category name in
\* threat_details is the model's probability of the class that carried this
\* name as its label in the training data.  (Every step of the
\* specification changes ops.)
ReportedUnderTrainingLabel ==
  [][(/\ ClassifyThreats
      /\ threat'.path = "model"
      /\ threat'.exc = "none"
      /\ "classes" \in DOMAIN disk.threat_model)
     => \A c \in DOMAIN threat'.outcome.value.threat_details :
          threat'.outcome.value.threat_details[c].probability
            = TrainedClassProbability(
                disk.threat_model,
                scaler_transform(disk.threat_scaler, extract_threat_features(scan)),
                c)]_ops

(***************************************************************************)
(* Frame of the scoring operations (SpecLifecycle)                         *)
(***************************************************************************)
\* C30: calculate_risk_score and classify_threats leave every persisted
\* artifact as it was, on the model path, the fallback path and the error
\* path alike; detect_anomalies leaves every artifact as it was when the
\* anomaly model file exists at the start of the call, readable or not, and
\* touches no file but the anomaly model file when it does not.  (Every
\* step of the specification changes ops.)
ScoringOperationsFrame ==
  [][/\ (risk' # risk \/ threat' # threat)
        => \A f \in DOMAIN disk : disk'[f] = disk[f]
     /\ \A outcome \in TrainOutcomes, fitted \in BootstrapBlobs :
          LET call == detect_anomalies(scan, disk, outcome, fitted)
          IN  /\ path_exists(disk.anomaly_model) => call.disk = disk
              /\ \A f \in DOMAIN disk \ {"anomaly_model"} : call.disk[f] = disk[f]
     /\ (anomaly' # anomaly /\ path_exists(disk.anomaly_model)) => disk' = disk]_ops

\* on a directory whose files cannot be loaded, the risk scorer has taken
\* its error path and the anomaly detector has failed to load the model it
\* found, and the directory is as it was
ScoringFrameWitness ==
  /\ risk.called
  /\ risk.path = "model"
  /\ risk.exc # "none"
  /\ anomaly.called
  /\ ~ anomaly.trained
  /\ anomaly.exc = "load_model"
  /\ disk = UnreadableDisk

====
